---- MODULE Spec2Model ----
(***************************************************************************)
(* Model of the revision engine of apps/oi/models.py (gcd-django): the     *)
(* commit_to_display handlers of IssueRevision, SeriesRevision and         *)
(* BrandRevision, the RevisionLock table, and the prerequisite handling of *)
(* issue revisions.  Display tables are functions from row ids to records; *)
(* a row that has not been created yet has live = FALSE.                   *)
(***************************************************************************)
EXTENDS Integers, Sequences, FiniteSets, TLC

\* ------------------------------------------------------------------ bounds
MaxSeries == 2
MaxIssues == 3
\* commits that end in an exception, after which an operator steps in
MaxFailures == 1
\* sort codes the issue table is explored up to
MaxSortCode == 4
\* issue revisions of one bulk add
MaxBulk == 3
\* commits of one run of the series workflow
MaxCommits == 4

\* ------------------------------------------------------------ fixed sets
Publishers == {"p1", "p2"}
\* a (country, language) pair keys the global statistics
Buckets == {"us_en", "de_de"}
StatNames == {"series", "issues", "variant issues"}
SeriesIds == 1..MaxSeries
IssueIds == 1..MaxIssues
None == 0

VARIABLES
    issue,      \* gcd_issue rows
    series,     \* gcd_series rows
    pub,        \* gcd_publisher rows: the cached counters
    stats,      \* the statistics sink: (bucket, name) -> count
    raised,     \* the exception the last commit_to_display ended with
    nfailed,    \* how many commits have ended in an exception
    ncommits,   \* how many commits the series workflow has run
    batch,      \* the bulk add of issues being approved, if any
    brand,      \* gcd_brand rows
    group_count,    \* gcd_brand_group rows: the cached issue_count
    brands_stat,    \* the 'brands' counter of the statistics sink
    brand_use,      \* the brands a gcd_brand_use row was created for
    locks,      \* oi_revision_lock rows
    revisions,  \* revision rows cloned from display rows
    denied,     \* the lock requests the table has rejected
    revs,       \* the issue revisions of the changeset being approved
    committed,  \* the ones that are committed
    cur,        \* the revision whose commit is running, if any
    open_prereq_count,  \* of the loop in _pre_stats_measurement
    passes,     \* the passes that loop has made
    disp,       \* the display rows a revision is being edited for
    edit,       \* that revision
    pc          \* how far the revision has come

issueVars == <<issue, series, pub, stats>>
brandVars == <<brand, group_count, brands_stat, brand_use>>
lockVars == <<locks, revisions, denied>>
prereqVars == <<revs, committed, cur, open_prereq_count, passes>>
editVars == <<disp, edit, pc>>

vars == <<issue, series, pub, stats, raised, nfailed, ncommits, batch,
          brand, group_count, brands_stat, brand_use, locks, revisions,
          denied, revs, committed, cur, open_prereq_count, passes,
          disp, edit, pc>>

NoIssue == [live |-> FALSE, deleted |-> FALSE, series |-> None,
            sort_code |-> 0, variant_of |-> None]
NoSeries == [live |-> FALSE, deleted |-> FALSE, publisher |-> "p1",
             bucket |-> "us_en", is_comics_publication |-> FALSE,
             is_singleton |-> FALSE, issue_count |-> 0]

\* ------------------------------------------------------------- helpers

\* update_count(field, delta, language, country): the call into the
\* statistics sink, which adds the signed delta to the bucket's counter.
update_count(st, name, delta, bucket) ==
    [st EXCEPT ![<<bucket, name>>] = @ + delta]

\* series.active_issues(): the non-deleted issues of a series
active_issues(iss, s) ==
    {i \in IssueIds : iss[i].live /\ ~iss[i].deleted /\ iss[i].series = s}

\* a table without the unique constraint: every save is accepted
SortCodeUnchecked(iss, i, s, code) == FALSE

\* The unique constraint on gcd_issue (series, sort_code): a save of row i
\* with these values is rejected when another row, deleted or not, has them.
SortCodeTaken(iss, i, s, code) ==
    \E j \in IssueIds \ {i} :
        iss[j].live /\ iss[j].series = s /\ iss[j].sort_code = code

\* a filter with sort_code__gte: the issue inserted behind is taken too
later_issues_with_after(iss, s, after_code) ==
    {i \in IssueIds : iss[i].live /\ iss[i].series = s
                      /\ iss[i].sort_code >= after_code}

\* Issue.objects.filter(series=..., sort_code__gt=after_code): deleted rows
\* are not filtered out.
later_issues(iss, s, after_code) ==
    {i \in IssueIds : iss[i].live /\ iss[i].series = s
                      /\ iss[i].sort_code > after_code}

MaxCode(iss, S) == CHOOSE c \in {iss[i].sort_code : i \in S} :
                       \A i \in S : iss[i].sort_code <= c

\* order_by('sort_code'): the rows of S from the lowest sort_code up
RECURSIVE OrderAsc(_, _)
OrderAsc(iss, S) ==
    IF S = {} THEN <<>>
    ELSE LET top == CHOOSE i \in S : iss[i].sort_code = MaxCode(iss, S)
         IN OrderAsc(iss, S \ {top}) \o <<top>>

\* order_by('-sort_code'): the rows of S from the highest sort_code down
RECURSIVE OrderDesc(_, _)
OrderDesc(iss, S) ==
    IF S = {} THEN <<>>
    ELSE LET top == CHOOSE i \in S : iss[i].sort_code = MaxCode(iss, S)
         IN <<top>> \o OrderDesc(iss, S \ {top})

\* for later_issue in later_issues: later_issue.sort_code += space_count;
\* later_issue.save().  A save that breaks the unique constraint raises and
\* leaves the saves made before it in place.
RECURSIVE ShiftLater(_, _, _)
ShiftLater(iss, order, space_count) ==
    IF order = <<>> THEN [issue |-> iss, ok |-> TRUE]
    ELSE LET i == Head(order)
             code == iss[i].sort_code + space_count
         IN IF SortCodeTaken(iss, i, iss[i].series, code)
            THEN [issue |-> iss, ok |-> FALSE]
            ELSE ShiftLater([iss EXCEPT ![i].sort_code = code],
                            Tail(order), space_count)

\* space is made on every pass: a pass with space_count = 0 shifts by the
\* default of one
MakeSpaceEveryPass(iss, s, after_code, space_count) ==
    ShiftLater(iss, OrderDesc(iss, later_issues(iss, s, after_code)),
               IF space_count > 0 THEN space_count ELSE 1)

\* "Make space for the issue(s) being added": nothing is shifted when the
\* changeset passes space_count = 0.
MakeSpace(iss, s, after_code, space_count) ==
    IF space_count > 0
    THEN ShiftLater(iss, OrderDesc(iss, later_issues(iss, s, after_code)),
                    space_count)
    ELSE [issue |-> iss, ok |-> TRUE]

\* the series is saved a second time: "the issue_count goes up by 2"
save_series_twice(ser, s, delta) ==
    [ser EXCEPT ![s].issue_count = @ + 2 * delta]

\* _check_first_last() / set_series_first_last(series): save the series
\* object, which applies its pending F('issue_count') expression.
set_series_first_last(ser, s, delta) ==
    [ser EXCEPT ![s].issue_count = @ + delta]

FreeIssueIds(iss) == {i \in IssueIds : ~iss[i].live}
NewIssueId(iss) == CHOOSE i \in FreeIssueIds(iss) :
                       \A j \in FreeIssueIds(iss) : i <= j
FreeSeriesIds(ser) == {s \in SeriesIds : ~ser[s].live}
NewSeriesId(ser) == CHOOSE s \in FreeSeriesIds(ser) :
                        \A t \in FreeSeriesIds(ser) : s <= t

IssueRow(s, code, variant_of) ==
    [live |-> TRUE, deleted |-> FALSE, series |-> s, sort_code |-> code,
     variant_of |-> variant_of]

\* The result of a commit: the tables as the commit leaves them and the
\* exception it ended with ("none" when it returned).
Result(iss, ser, pb, st, exc) ==
    [issue |-> iss, series |-> ser, pub |-> pb, stats |-> st, raised |-> exc]

\* ------------------------------------------- IssueRevision.commit_to_display

\* an insertion at the beginning that starts from code 0 instead of -1
after_code_from_zero(iss, after) ==
    IF after = None THEN 0 ELSE iss[after].sort_code

\* after_code: -1 when self.after is None, else self.after.sort_code
after_code_of(iss, after) ==
    IF after = None THEN -1 ELSE iss[after].sort_code

\* The add branch (issue is None).  pending_series is the F expression the
\* caller left unsaved on series.publisher.series_count (SeriesRevision,
\* singleton add), which publisher.save() applies together with issue_count.
IssueRevision_add(db, s, after, variant_of, space_count, pending_series) ==
    LET after_code == after_code_of(db.issue, after)
        shifted == MakeSpace(db.issue, s, after_code, space_count)
        icp == db.series[s].is_comics_publication
        b == db.series[s].bucket
        p == db.series[s].publisher
        pub1 == IF variant_of = None /\ icp
                THEN [db.pub EXCEPT ![p].issue_count = @ + 1,
                                    ![p].series_count = @ + pending_series]
                ELSE db.pub
        stats1 == IF ~icp THEN db.stats
                  ELSE IF variant_of # None
                       THEN update_count(db.stats, "variant issues", 1, b)
                       ELSE update_count(db.stats, "issues", 1, b)
        new == NewIssueId(db.issue)
        code == after_code + 1
    IN  IF ~shifted.ok
        THEN Result(shifted.issue, db.series, db.pub, db.stats,
                    "IntegrityError")
        ELSE IF SortCodeTaken(shifted.issue, new, s, code)
        THEN Result(shifted.issue, db.series, pub1, stats1, "IntegrityError")
        ELSE Result([shifted.issue EXCEPT
                         ![new] = IssueRow(s, code, variant_of)],
                    IF variant_of = None
                    THEN set_series_first_last(db.series, s, 1)
                    ELSE db.series,
                    pub1, stats1, "none")

\* The delete branch (self.deleted); Issue.delete() marks the row deleted.
IssueRevision_delete(db, i) ==
    LET s == db.issue[i].series
        v == db.issue[i].variant_of
        icp == db.series[s].is_comics_publication
        b == db.series[s].bucket
        p == db.series[s].publisher
        pub1 == IF v = None /\ icp
                THEN [db.pub EXCEPT ![p].issue_count = @ - 1]
                ELSE db.pub
        stats1 == IF ~icp THEN db.stats
                  ELSE IF v # None
                       THEN update_count(db.stats, "variant issues", -1, b)
                       ELSE update_count(db.stats, "issues", -1, b)
    IN  Result([db.issue EXCEPT ![i].deleted = TRUE],
               IF v = None THEN set_series_first_last(db.series, s, -1)
               ELSE db.series,
               pub1, stats1, "none")

\* The edit branch with self.series != issue.series: the issue moves to the
\* end of series t.
IssueRevision_move(db, i, t) ==
    LET o == db.issue[i].series
        v == db.issue[i].variant_of
        act == active_issues(db.issue, t)
        new == db.series[t]
        old == db.series[o]
        code == IF new.issue_count # 0
                THEN MaxCode(db.issue, act) + 1
                ELSE 0
        pubNew == IF v = None /\ new.publisher # old.publisher
                     /\ new.is_comics_publication
                  THEN [db.pub EXCEPT ![new.publisher].issue_count = @ + 1]
                  ELSE db.pub
        pub1 == IF v = None /\ new.publisher # old.publisher
                   /\ old.is_comics_publication
                THEN [pubNew EXCEPT ![old.publisher].issue_count = @ - 1]
                ELSE pubNew
        name == IF v # None THEN "variant issues" ELSE "issues"
        statsNew == IF new.bucket # old.bucket /\ new.is_comics_publication
                    THEN update_count(db.stats, name, 1, new.bucket)
                    ELSE db.stats
        stats1 == IF new.bucket # old.bucket /\ old.is_comics_publication
                  THEN update_count(statsNew, name, -1, old.bucket)
                  ELSE statsNew
    IN  IF new.issue_count # 0 /\ act = {}
        THEN Result(db.issue, db.series, db.pub, db.stats, "DoesNotExist")
        ELSE IF SortCodeTaken(db.issue, i, t, code)
        THEN Result(db.issue, db.series, pub1, stats1, "IntegrityError")
        ELSE Result([db.issue EXCEPT ![i].series = t, ![i].sort_code = code],
                    IF v = None
                    THEN set_series_first_last(
                             set_series_first_last(db.series, o, -1), t, 1)
                    ELSE db.series,
                    pub1, stats1, "none")

\* ------------------------------------------ SeriesRevision.commit_to_display

\* an add whose series commit saves the publisher of a singleton as well
SeriesRevision_add_saves_publisher(db, p, b, icp, singleton) ==
    LET new == NewSeriesId(db.series)
        pub1 == IF icp THEN [db.pub EXCEPT ![p].series_count = @ + 1]
                ELSE db.pub
        stats1 == IF icp THEN update_count(db.stats, "series", 1, b)
                  ELSE db.stats
        series1 == [db.series EXCEPT ![new] =
                       [live |-> TRUE, deleted |-> FALSE, publisher |-> p,
                        bucket |-> b, is_comics_publication |-> icp,
                        is_singleton |-> singleton, issue_count |-> 0]]
    IN  IF singleton
        THEN IssueRevision_add(Result(db.issue, series1, pub1, stats1, "none"),
                               new, None, None, 1, IF icp THEN 1 ELSE 0)
        ELSE Result(db.issue, series1, pub1, stats1, "none")

\* The add branch (series is None).  A singleton series commits the issue
\* revision of its '[nn]' issue after the series row is saved; the
\* publisher's series_count is then saved by that issue commit.
SeriesRevision_add(db, p, b, icp, singleton) ==
    LET new == NewSeriesId(db.series)
        pub1 == IF icp /\ ~singleton
                THEN [db.pub EXCEPT ![p].series_count = @ + 1]
                ELSE db.pub
        stats1 == IF icp THEN update_count(db.stats, "series", 1, b)
                  ELSE db.stats
        series1 == [db.series EXCEPT ![new] =
                       [live |-> TRUE, deleted |-> FALSE, publisher |-> p,
                        bucket |-> b, is_comics_publication |-> icp,
                        is_singleton |-> singleton, issue_count |-> 0]]
    IN  IF singleton
        THEN IssueRevision_add(Result(db.issue, series1, pub1, stats1, "none"),
                               new, None, None, 1, IF icp THEN 1 ELSE 0)
        ELSE Result(db.issue, series1, pub1, stats1, "none")

\* The delete branch; Series.delete() marks the row deleted.
SeriesRevision_delete(db, s) ==
    LET old == db.series[s]
    IN  Result(db.issue,
               [db.series EXCEPT ![s].deleted = TRUE],
               IF old.is_comics_publication
               THEN [db.pub EXCEPT ![old.publisher].series_count = @ - 1]
               ELSE db.pub,
               IF old.is_comics_publication
               THEN update_count(db.stats, "series", -1, old.bucket)
               ELSE db.stats,
               "none")

\* Issue.objects.filter(series=series, deleted=False)
\*      .exclude(variant_of=None).count()
variant_issues(iss, s) ==
    Cardinality({i \in active_issues(iss, s) : iss[i].variant_of # None})

\* The statistics of an edit that toggles is_comics_publication
\* (lines 1232-1254), all in the series' old bucket.
StatsOfToggle(st, old, vcount) ==
    LET count == IF old.is_comics_publication THEN -1 ELSE 1
        st1 == update_count(st, "series", count, old.bucket)
        st2 == IF old.issue_count # 0
               THEN update_count(st1, "issues", count * old.issue_count,
                                 old.bucket)
               ELSE st1
    IN  update_count(st2, "variant issues", count * vcount, old.bucket)

\* a change of bucket that adds to the new bucket and leaves the old one
StatsOfRebucketAddOnly(st, old, b, vcount) ==
    LET st1 == update_count(st, "series", 1, b)
        st2 == update_count(st1, "issues", old.issue_count, b)
        st3 == update_count(st2, "variant issues", vcount, b)
    IN  IF old.issue_count # 0 THEN st3 ELSE st1

\* The statistics of an edit that changes country or language
\* (lines 1256-1306): taken from the old bucket, added to the new one.
StatsOfRebucket(st, old, b, vcount) ==
    LET st1 == update_count(update_count(st, "series", -1, old.bucket),
                            "series", 1, b)
        st2 == update_count(update_count(st1, "issues", -old.issue_count,
                                         old.bucket),
                            "issues", old.issue_count, b)
        st3 == update_count(update_count(st2, "variant issues", -vcount,
                                         old.bucket),
                            "variant issues", vcount, b)
    IN  IF old.issue_count # 0 THEN st3 ELSE st1

\* The edit branch.
SeriesRevision_edit(db, s, p, b, icp, singleton) ==
    LET old == db.series[s]
        vcount == variant_issues(db.issue, s)
        pub1 == IF p # old.publisher /\ old.is_comics_publication
                THEN [db.pub EXCEPT
                         ![p].issue_count = @ + old.issue_count,
                         ![p].series_count = @ + 1,
                         ![old.publisher].issue_count = @ - old.issue_count,
                         ![old.publisher].series_count = @ - 1]
                ELSE db.pub
        stats1 == IF old.is_comics_publication # icp
                  THEN StatsOfToggle(db.stats, old, vcount)
                  ELSE db.stats
        stats2 == IF old.bucket # b /\ icp
                  THEN StatsOfRebucket(stats1, old, b, vcount)
                  ELSE stats1
    IN  Result(db.issue,
               [db.series EXCEPT ![s].publisher = p, ![s].bucket = b,
                                 ![s].is_comics_publication = icp,
                                 ![s].is_singleton = singleton],
               pub1, stats2, "none")

\* ------------------------------------------------------ tables at rest
\* The values the tables of one workflow keep while another one is explored.

Groups == {"g1", "g2"}
NoBrand == [live |-> FALSE, deleted |-> FALSE, group |-> {}, issue_count |-> 0]

BrandsAtRest ==
    /\ brand = <<>>
    /\ group_count = [g \in Groups |-> 0]
    /\ brands_stat = 0
    /\ brand_use = {}

LocksAtRest ==
    /\ locks = {}
    /\ revisions = {}
    /\ denied = {}

EditsAtRest ==
    /\ disp = <<>>
    /\ edit = <<>>
    /\ pc = "rest"

NoChangeset ==
    /\ revs = <<>>
    /\ committed = {}
    /\ cur = None
    /\ open_prereq_count = 0
    /\ passes = 0

\* --------------------------------------------------------------- actions

DB == Result(issue, series, pub, stats, raised)

NoBatch == [state |-> "idle", series |-> None, after |-> None, n |-> 0,
            done |-> 0, prev |-> None,
            base |-> [i \in IssueIds |-> NoIssue]]

\* A commit may run when fewer than MaxFailures commits have failed; runs
\* that push a sort code past MaxSortCode are not explored.
Apply(r) ==
    /\ nfailed < MaxFailures
    /\ \A i \in IssueIds : r.issue[i].sort_code <= MaxSortCode
    /\ issue' = r.issue
    /\ series' = r.series
    /\ pub' = r.pub
    /\ stats' = r.stats
    /\ raised' = r.raised
    /\ nfailed' = IF r.raised = "none" THEN nfailed ELSE nfailed + 1

ActiveSeries == {s \in SeriesIds : series[s].live /\ ~series[s].deleted}
ActiveIssues == {i \in IssueIds : issue[i].live /\ ~issue[i].deleted}
\* the issues a new issue of series s can be a variant of
BaseIssues(s) == {i \in active_issues(issue, s) : issue[i].variant_of = None}

\* an added IssueRevision is committed (space_count keeps its default)
IssueAddStep(s, after, variant_of) ==
    /\ FreeIssueIds(issue) # {}
    /\ Apply(IssueRevision_add(DB, s, after, variant_of, 1, 0))

\* a deleting IssueRevision is committed
IssueDeleteStep(i) == Apply(IssueRevision_delete(DB, i))

\* an IssueRevision whose series was changed is committed
IssueMoveStep(i, t) == Apply(IssueRevision_move(DB, i, t))

CommitIssueAdd ==
    /\ batch.state # "running"
    /\ \E s \in ActiveSeries :
       \E after \in {None} \cup active_issues(issue, s) :
       \E variant_of \in {None} \cup BaseIssues(s) :
           IssueAddStep(s, after, variant_of)
    /\ batch' = NoBatch
    /\ UNCHANGED <<ncommits, brandVars, lockVars, prereqVars, editVars>>

CommitIssueDelete ==
    /\ batch.state # "running"
    /\ \E i \in ActiveIssues : IssueDeleteStep(i)
    /\ batch' = NoBatch
    /\ UNCHANGED <<ncommits, brandVars, lockVars, prereqVars, editVars>>

CommitIssueMove ==
    /\ batch.state # "running"
    /\ \E i \in ActiveIssues : \E t \in ActiveSeries \ {issue[i].series} :
           IssueMoveStep(i, t)
    /\ batch' = NoBatch
    /\ UNCHANGED <<ncommits, brandVars, lockVars, prereqVars, editVars>>

\* ---------------------------------------------------------------- bulk add
\* Approval of a changeset that adds n issues to one series after the issue
\* `after`: the first revision is committed with space_count = n, every
\* other one with space_count = 0 and placed after the issue created by the
\* revision before it.

StartBulkAdd ==
    /\ batch.state # "running"
    /\ nfailed < MaxFailures
    /\ \E s \in ActiveSeries :
       \E after \in {None} \cup active_issues(issue, s) :
       \E n \in 2..MaxBulk :
           /\ Cardinality(FreeIssueIds(issue)) >= n
           /\ batch' = [state |-> "running", series |-> s, after |-> after,
                        n |-> n, done |-> 0, prev |-> None, base |-> issue]
    /\ UNCHANGED <<issue, series, pub, stats, raised, nfailed, ncommits>>
    /\ UNCHANGED <<brandVars, lockVars, prereqVars, editVars>>

\* every revision of the bulk add is committed like a single add right
\* behind the insertion point
BulkResultEachBehindAfter ==
    IssueRevision_add(DB, batch.series, batch.after, None, 1, 0)

\* every revision of the bulk add keeps the `after` it was created with
BulkResultKeepsAfter ==
    IssueRevision_add(DB, batch.series, batch.after, None,
                      IF batch.done = 0 THEN batch.n ELSE 0, 0)

BulkResult ==
    IF batch.done = 0
    THEN IssueRevision_add(DB, batch.series, batch.after, None, batch.n, 0)
    ELSE IssueRevision_add(DB, batch.series, batch.prev, None, 0, 0)

CommitBulkNext ==
    /\ batch.state = "running"
    /\ LET r == BulkResult
           new == NewIssueId(issue)
       IN  /\ Apply(r)
           /\ batch' = IF r.raised # "none"
                       THEN [batch EXCEPT !.state = "failed"]
                       ELSE [batch EXCEPT
                                !.done = @ + 1, !.prev = new,
                                !.state = IF batch.done + 1 = batch.n
                                          THEN "done" ELSE "running"]
    /\ UNCHANGED <<ncommits, brandVars, lockVars, prereqVars, editVars>>

\* ------------------------------------------------------------ issue workflow
\* Two series exist when the run starts; series 1 is a comics publication.
SeriesFixture(p, b, icp) ==
    [live |-> TRUE, deleted |-> FALSE, publisher |-> p, bucket |-> b,
     is_comics_publication |-> icp, is_singleton |-> FALSE, issue_count |-> 0]

CountOf(S) == Cardinality(S)

Init ==
    /\ issue = [i \in IssueIds |-> NoIssue]
    /\ series \in [SeriesIds ->
                      {SeriesFixture(p, b, icp) :
                           p \in Publishers, b \in Buckets, icp \in BOOLEAN}]
    /\ series[1] = SeriesFixture("p1", "us_en", TRUE)
    /\ pub = [p \in Publishers |->
                [series_count |->
                     CountOf({s \in SeriesIds :
                                 /\ series[s].publisher = p
                                 /\ series[s].is_comics_publication}),
                 issue_count |-> 0]]
    /\ stats = [k \in Buckets \X StatNames |->
                   IF k[2] = "series"
                   THEN CountOf({s \in SeriesIds :
                                    /\ series[s].bucket = k[1]
                                    /\ series[s].is_comics_publication})
                   ELSE 0]
    /\ raised = "none"
    /\ nfailed = 0
    /\ ncommits = 0
    /\ batch = NoBatch
    /\ BrandsAtRest
    /\ LocksAtRest
    /\ NoChangeset
    /\ EditsAtRest

Next ==
    \/ CommitIssueAdd
    \/ CommitIssueDelete
    \/ CommitIssueMove
    \/ StartBulkAdd
    \/ CommitBulkNext

Spec == Init /\ [][Next]_vars

\* ------------------------------------------------ properties of the issues

\* C1: within every series, no two non-deleted issues have the same
\* sort_code, whatever adds, deletes and moves have been committed.
C1_UniqueSortCodes ==
    \A s \in SeriesIds : \A i, j \in active_issues(issue, s) :
        i # j => issue[i].sort_code # issue[j].sort_code

\* a series that holds an issue moved to its end behind an inserted one,
\* next to a deleted row
C1_Witness ==
    \E s \in SeriesIds : \E i, j \in active_issues(issue, s) :
        /\ issue[i].sort_code + 1 < issue[j].sort_code
        /\ \E d \in IssueIds : issue[d].live /\ issue[d].deleted
                               /\ issue[d].series = s

\* C2 as stated: every series' cached issue_count equals the number of its
\* active (non-deleted) issues.
C2_CountsEveryActiveIssue ==
    \A s \in SeriesIds :
        series[s].issue_count = Cardinality(active_issues(issue, s))

\* C2: every series' cached issue_count equals the number of its active
\* issues that are not variants; variant issues are not counted.
C2_CountsActiveBaseIssues ==
    \A s \in SeriesIds : series[s].issue_count = Cardinality(BaseIssues(s))

\* a series with a counted issue, an uncounted variant and a deleted issue
C2_Witness ==
    \E s \in SeriesIds :
        /\ series[s].issue_count >= 1
        /\ Cardinality(active_issues(issue, s)) > series[s].issue_count
        /\ \E d \in IssueIds : issue[d].live /\ issue[d].deleted

\* the sort code the bulk add inserts behind, as it was when the add began
BatchAfterCode ==
    IF batch.after = None THEN -1 ELSE batch.base[batch.after].sort_code

\* C9: once the first revision of a bulk add of n issues has made space,
\* the commits of its siblings shift nothing: every issue that was behind
\* the insertion point sits exactly n codes later, every other issue of the
\* series where it was.
C9_SpaceMadeOnce ==
    (batch.state \in {"running", "done"} /\ batch.done >= 1) =>
        \A i \in IssueIds :
            (batch.base[i].live /\ batch.base[i].series = batch.series) =>
                issue[i].sort_code =
                    IF batch.base[i].sort_code > BatchAfterCode
                    THEN batch.base[i].sort_code + batch.n
                    ELSE batch.base[i].sort_code

\* a bulk add whose last sibling has been committed in front of an issue
C9_Witness ==
    /\ batch.state = "done"
    /\ batch.done >= 2
    /\ \E i \in IssueIds :
           /\ batch.base[i].live
           /\ batch.base[i].series = batch.series
           /\ batch.base[i].sort_code > BatchAfterCode

\* the rows of series s, deleted ones included
IssuesOf(s) == {i \in IssueIds : issue[i].live /\ issue[i].series = s}

\* C10: in a comics-publication series with issue_count 0 and no issues,
\* the commit of an added non-variant issue revision with after = None
\* creates the issue with sort_code 0, makes the series' issue_count 1 and
\* adds exactly 1 to the publisher's issue_count and to the 'issues'
\* statistic of the series' bucket.
C10_FirstIssueOfSeries ==
    [][\A s \in SeriesIds :
          ( /\ series[s].is_comics_publication
            /\ series[s].issue_count = 0
            /\ IssuesOf(s) = {}
            /\ IssueAddStep(s, None, None) )
          => LET new == NewIssueId(issue)
                 p == series[s].publisher
                 k == <<series[s].bucket, "issues">>
             IN  /\ raised' = "none"
                 /\ issue'[new] = IssueRow(s, 0, None)
                 /\ series'[s].issue_count = 1
                 /\ pub'[p].issue_count = pub[p].issue_count + 1
                 /\ stats'[k] = stats[k] + 1
      ]_vars

\* the first issue of a comics-publication series has been committed
C10_Witness ==
    \E s \in SeriesIds : \E i \in IssueIds :
        /\ series[s].is_comics_publication
        /\ IssuesOf(s) = {i}
        /\ issue[i] = IssueRow(s, 0, None)
        /\ series[s].issue_count = 1
        /\ pub[series[s].publisher].issue_count = 1
        /\ stats[<<series[s].bucket, "issues">>] = 1

\* ----------------------------------------------------------- series workflow
\* Series and issue revisions are committed against tables that start empty;
\* a run is explored for MaxCommits commits.

\* pc keeps the series edit that was committed last
SeriesCall(r, call) ==
    /\ ncommits < MaxCommits
    /\ Apply(r)
    /\ ncommits' = ncommits + 1
    /\ pc' = call
    /\ UNCHANGED <<batch, brandVars, lockVars, prereqVars, disp, edit>>

SeriesStep(r) == SeriesCall(r, pc)

\* an added SeriesRevision is committed
CommitSeriesAdd ==
    /\ FreeSeriesIds(series) # {}
    /\ \E p \in Publishers : \E b \in Buckets :
       \E icp \in BOOLEAN : \E singleton \in BOOLEAN :
           /\ singleton => FreeIssueIds(issue) # {}
           /\ SeriesStep(SeriesRevision_add(DB, p, b, icp, singleton))

\* a deleting SeriesRevision is committed; a series that still has issues
\* cannot be deleted
CommitSeriesDelete ==
    \E s \in ActiveSeries :
        /\ active_issues(issue, s) = {}
        /\ SeriesStep(SeriesRevision_delete(DB, s))

\* an edited SeriesRevision is committed
CommitSeriesEdit ==
    \E s \in ActiveSeries : \E p \in Publishers : \E b \in Buckets :
    \E icp \in BOOLEAN : \E singleton \in BOOLEAN :
        /\ <<p, b, icp, singleton>>
               # <<series[s].publisher, series[s].bucket,
                   series[s].is_comics_publication, series[s].is_singleton>>
        /\ SeriesCall(SeriesRevision_edit(DB, s, p, b, icp, singleton),
                      [op |-> "edit", id |-> s, old |-> series[s]])

\* the issue revisions of the run
SeriesIssueAdd ==
    /\ FreeIssueIds(issue) # {}
    /\ \E s \in ActiveSeries :
       \E after \in {None} \cup active_issues(issue, s) :
       \E variant_of \in {None} \cup BaseIssues(s) :
           SeriesStep(IssueRevision_add(DB, s, after, variant_of, 1, 0))

SeriesIssueDelete ==
    \E i \in ActiveIssues : SeriesStep(IssueRevision_delete(DB, i))

SeriesIssueMove ==
    \E i \in ActiveIssues : \E t \in ActiveSeries \ {issue[i].series} :
        SeriesStep(IssueRevision_move(DB, i, t))

InitSeries ==
    /\ issue = [i \in IssueIds |-> NoIssue]
    /\ series = [s \in SeriesIds |-> NoSeries]
    /\ pub = [p \in Publishers |-> [series_count |-> 0, issue_count |-> 0]]
    /\ stats = [k \in Buckets \X StatNames |-> 0]
    /\ raised = "none"
    /\ nfailed = 0
    /\ ncommits = 0
    /\ batch = NoBatch
    /\ disp = <<>>
    /\ edit = <<>>
    /\ pc = [op |-> "none", id |-> None, old |-> NoSeries]
    /\ BrandsAtRest
    /\ LocksAtRest
    /\ NoChangeset

NextSeries ==
    \/ CommitSeriesAdd
    \/ CommitSeriesDelete
    \/ CommitSeriesEdit
    \/ SeriesIssueAdd
    \/ SeriesIssueDelete
    \/ SeriesIssueMove

SpecSeries == InitSeries /\ [][NextSeries]_vars

\* the non-deleted series of publisher p that the commits count: the
\* comics publications
SeriesOf(p) ==
    {s \in ActiveSeries : series[s].publisher = p
                          /\ series[s].is_comics_publication}

\* C3: every publisher's cached series_count equals the number of its
\* non-deleted series, and its cached issue_count the number of non-deleted
\* issues in those series.  Stated for what the commits mean to count
\* (comics publications and their non-variant issues), the reading under
\* which the fewest states break it.
C3_PublisherCounts ==
    \A p \in Publishers :
        /\ pub[p].series_count = Cardinality(SeriesOf(p))
        /\ pub[p].issue_count =
               Cardinality({i \in ActiveIssues :
                               /\ issue[i].series \in SeriesOf(p)
                               /\ issue[i].variant_of = None})

\* ------------------------------------------- BrandRevision.commit_to_display
\* Brand rows carry the set of their groups and a cached issue_count.

MaxBrands == 2
\* issues the brand of the fixture is used on
MaxBrandIssues == 1
BrandIds == 1..MaxBrands

FreeBrandIds(br) == {b \in BrandIds : ~br[b].live}
NewBrandId(br) == CHOOSE b \in FreeBrandIds(br) :
                      \A c \in FreeBrandIds(br) : b <= c

BrandResult(br, gc, st, use, exc) ==
    [brand |-> br, group_count |-> gc, brands_stat |-> st, brand_use |-> use,
     raised |-> exc]

BrandDB == BrandResult(brand, group_count, brands_stat, brand_use, raised)

\* self.issue_count of a BrandRevision: the issue_count of the brand it
\* was cloned from, 0 for a brand that is being added
BrandRevision_issue_count(br, b) ==
    IF b = None THEN 0 ELSE br[b].issue_count

\* The two loops over brand.group and self.group: a group the brand leaves
\* loses the revision's issue_count, a group it joins gains it.
MoveGroupCounts(gc, brand_groups, revision_groups, n) ==
    IF brand_groups = revision_groups THEN gc
    ELSE [g \in Groups |->
             gc[g] - (IF g \in brand_groups \ revision_groups THEN n ELSE 0)
                   + (IF g \in revision_groups \ brand_groups THEN n ELSE 0)]

\* The add branch (brand is None): the statistic is counted and the row
\* saved before the number of groups is looked at.
BrandRevision_add(db, revision_groups) ==
    LET new == NewBrandId(db.brand)
        st1 == db.brands_stat + 1
        gc1 == MoveGroupCounts(db.group_count, {}, revision_groups,
                               BrandRevision_issue_count(db.brand, None))
        br1 == [db.brand EXCEPT ![new] =
                   [live |-> TRUE, deleted |-> FALSE,
                    group |-> revision_groups, issue_count |-> 0]]
    IN  IF Cardinality(revision_groups) # 1
        THEN BrandResult(br1, gc1, st1, db.brand_use, "NotImplementedError")
        ELSE BrandResult(br1, gc1, st1, db.brand_use \cup {new}, "none")

\* The delete branch; Brand.delete() marks the row deleted.
BrandRevision_delete(db, b) ==
    BrandResult([db.brand EXCEPT ![b].deleted = TRUE], db.group_count,
                db.brands_stat - 1, db.brand_use, "none")

\* The edit branch.
BrandRevision_edit(db, b, revision_groups) ==
    BrandResult([db.brand EXCEPT ![b].group = revision_groups],
                MoveGroupCounts(db.group_count, db.brand[b].group,
                                revision_groups,
                                BrandRevision_issue_count(db.brand, b)),
                db.brands_stat, db.brand_use, "none")

BrandStep(r) ==
    /\ nfailed < MaxFailures
    /\ brand' = r.brand
    /\ group_count' = r.group_count
    /\ brands_stat' = r.brands_stat
    /\ brand_use' = r.brand_use
    /\ raised' = r.raised
    /\ nfailed' = IF r.raised = "none" THEN nfailed ELSE nfailed + 1
    /\ UNCHANGED <<issueVars, ncommits, batch, lockVars, prereqVars, editVars>>

ActiveBrands == {b \in BrandIds : brand[b].live /\ ~brand[b].deleted}

CommitBrandAdd ==
    /\ FreeBrandIds(brand) # {}
    /\ \E revision_groups \in SUBSET Groups :
           BrandStep(BrandRevision_add(BrandDB, revision_groups))

CommitBrandDelete ==
    \E b \in ActiveBrands : BrandStep(BrandRevision_delete(BrandDB, b))

CommitBrandEdit ==
    \E b \in ActiveBrands : \E revision_groups \in SUBSET Groups :
        BrandStep(BrandRevision_edit(BrandDB, b, revision_groups))

\* One brand of group g1 exists when the run starts, used on n issues.
InitBrand ==
    /\ \E n \in 0..MaxBrandIssues :
           /\ brand = [b \in BrandIds |->
                          IF b = 1
                          THEN [live |-> TRUE, deleted |-> FALSE,
                                group |-> {"g1"}, issue_count |-> n]
                          ELSE NoBrand]
           /\ group_count = [g \in Groups |-> IF g = "g1" THEN n ELSE 0]
    /\ brands_stat = 1
    /\ brand_use = {1}
    /\ issue = [i \in IssueIds |-> NoIssue]
    /\ series = [s \in SeriesIds |-> NoSeries]
    /\ pub = [p \in Publishers |-> [series_count |-> 0, issue_count |-> 0]]
    /\ stats = [k \in Buckets \X StatNames |-> 0]
    /\ raised = "none"
    /\ nfailed = 0
    /\ ncommits = 0
    /\ batch = NoBatch
    /\ LocksAtRest
    /\ NoChangeset
    /\ EditsAtRest

NextBrand ==
    \/ CommitBrandAdd
    \/ CommitBrandDelete
    \/ CommitBrandEdit

SpecBrand == InitBrand /\ [][NextBrand]_vars

\* C6: a commit_to_display that raises has changed no display row, no
\* cached counter and no statistic.
C6_AllOrNothing ==
    [][raised' # "none" =>
          UNCHANGED <<brand, group_count, brands_stat, brand_use>>]_vars

\* -------------------------------------------------------------- RevisionLock
\* oi_revision_lock is a set of rows; `by` stands for the row's primary
\* key, the request that inserted it.  Several changesets ask for the locks
\* of the same display rows in any interleaving.

MaxChangesets == 2
Changesets == 1..MaxChangesets
\* two display rows; the lock of one row has no bearing on the other's
Rows == {"row1", "row2"}

\* a table that takes every insert
LockInsertUnchecked(lk, c, r) == TRUE

\* a table whose constraint also covers the inserting request
LockInsertPerRequest(lk, c, r) ==
    ~ \E l \in lk : l.object = r /\ l.by = c

\* unique_together = ('content_type', 'object_id'): an insert for row r is
\* accepted only when the table has no lock of r.
LockInsertAllowed(lk, c, r) ==
    ~ \E l \in lk : l.object = r

\* RevisionManager.clone_revision: a new revision of the display row in the
\* changeset, where the edits are made
clone_revision(rv, r, c) ==
    rv \cup {[changeset |-> c, object |-> r, open |-> TRUE]}

\* RevisionManager.active(): get() over the revisions of row r whose
\* changeset is in an active state
active(rv, r) ==
    LET found == {v \in rv : v.object = r /\ v.open}
    IN  IF found = {} THEN "DoesNotExist"
        ELSE IF Cardinality(found) > 1 THEN "MultipleObjectsReturned"
        ELSE "found"

\* what a step on the lock table leaves alone
NoCommit ==
    UNCHANGED <<issueVars, raised, nfailed, ncommits, batch, brandVars,
                prereqVars, editVars>>

\* a lock with a NULL changeset is inserted to see whether the row can be
\* locked before a changeset is created
RequestLock(c, r) ==
    /\ ~ \E l \in locks : l.by = c /\ l.object = r
    /\ IF LockInsertAllowed(locks, c, r)
       THEN /\ locks' = locks \cup {[by |-> c, changeset |-> None, object |-> r]}
            /\ denied' = denied \ {<<c, r>>}
       ELSE /\ locks' = locks
            /\ denied' = denied \cup {<<c, r>>}
    /\ UNCHANGED revisions
    /\ NoCommit

\* the changeset is created and takes the lock over
AttachChangeset(c, r) ==
    /\ \E l \in locks :
           /\ l.by = c /\ l.object = r /\ l.changeset = None
           /\ locks' = (locks \ {l}) \cup {[l EXCEPT !.changeset = c]}
    /\ UNCHANGED <<revisions, denied>>
    /\ NoCommit

\* "In order to have an active Revision for a given row, a Changeset must
\* hold a lock on it": the caller that reserves the row calls
\* clone_revision for the changeset that holds the lock; clone_revision
\* itself does not look at the lock table.
CloneRevision(c, r) ==
    /\ \E l \in locks : l.object = r /\ l.changeset = c
    /\ ~ \E v \in revisions : v.changeset = c /\ v.object = r /\ v.open
    /\ revisions' = clone_revision(revisions, r, c)
    /\ UNCHANGED <<locks, denied>>
    /\ NoCommit

\* the changeset is approved or discarded: its revisions stop being active
\* and its locks are released by deleting the rows
CloseChangeset(c) ==
    /\ \E l \in locks : l.changeset = c
    /\ revisions' = {IF v.changeset = c THEN [v EXCEPT !.open = FALSE] ELSE v :
                        v \in revisions}
    /\ locks' = {l \in locks : l.changeset # c}
    /\ UNCHANGED denied
    /\ NoCommit

NextLock ==
    \/ \E c \in Changesets : \E r \in Rows : RequestLock(c, r)
    \/ \E c \in Changesets : \E r \in Rows : AttachChangeset(c, r)
    \/ \E c \in Changesets : \E r \in Rows : CloneRevision(c, r)
    \/ \E c \in Changesets : CloseChangeset(c)

InitLock ==
    /\ LocksAtRest
    /\ issue = [i \in IssueIds |-> NoIssue]
    /\ series = [s \in SeriesIds |-> NoSeries]
    /\ pub = [p \in Publishers |-> [series_count |-> 0, issue_count |-> 0]]
    /\ stats = [k \in Buckets \X StatNames |-> 0]
    /\ raised = "none"
    /\ nfailed = 0
    /\ ncommits = 0
    /\ batch = NoBatch
    /\ BrandsAtRest
    /\ NoChangeset
    /\ EditsAtRest

SpecLock == InitLock /\ [][NextLock]_vars

\* C4: every display row has at most one RevisionLock row, whatever the
\* order in which the changesets ask for it, so at most one changeset holds
\* the row's lock.
C4_OneLockPerRow ==
    \A r \in Rows :
        /\ Cardinality({l \in locks : l.object = r}) <= 1
        /\ Cardinality({c \in Changesets :
                           \E l \in locks : l.object = r /\ l.changeset = c}) <= 1

\* one changeset holds the lock of a row another one was refused
C4_Witness ==
    \E r \in Rows : \E c, d \in Changesets :
        /\ c # d
        /\ \E l \in locks : l.object = r /\ l.changeset = c
        /\ <<d, r>> \in denied

MaxRevs == 3
RevIds == 1..MaxRevs

Lowest(S) == CHOOSE k \in S : \A j \in S : k <= j
Highest(S) == CHOOSE k \in S : \A j \in S : j <= k

\* self._same_series_revisions(): the revisions of the changeset that are
\* in the series of revision k
same_series_revisions(rv, k) ==
    {j \in DOMAIN rv : rv[j].series = rv[k].series}

\* self._same_series_open_with_after(): the uncommitted ones with `after`
same_series_open_with_after(rv, cm, k) ==
    {j \in same_series_revisions(rv, k) \ cm : rv[j].after}

\* a check that only counts the revisions with `after`
pre_commit_check_count_only(rv, cm, k) ==
    IF same_series_revisions(rv, k) \cap cm # {} THEN "none"
    ELSE IF Cardinality(same_series_open_with_after(rv, cm, k)) > 1
    THEN "ValueError"
    ELSE "none"

\* IssueRevision._pre_commit_check: nothing is checked once a revision of
\* the series is committed; else "Only one IssueRevision per series within
\* a changeset can have 'after' set" and "The IssueRevision that specifies
\* an 'after' must have the lowest revision_sort_code".
pre_commit_check(rv, cm, k) ==
    LET with_after == same_series_open_with_after(rv, cm, k)
    IN  IF same_series_revisions(rv, k) \cap cm # {} THEN "none"
        ELSE IF Cardinality(with_after) > 1 THEN "ValueError"
        ELSE IF with_after # {}
                /\ Lowest(with_after) # Lowest(same_series_revisions(rv, k))
        THEN "ValueError"
        ELSE "none"

\* an ordering that is first to last whatever the revision is
RECURSIVE order_first_to_last(_, _)
order_first_to_last(S, descending) ==
    IF S = {} THEN <<>>
    ELSE <<Lowest(S)>> \o order_first_to_last(S \ {Lowest(S)}, descending)

\* order_by('revision_sort_code') and order_by('-revision_sort_code')
RECURSIVE order_by(_, _)
order_by(S, descending) ==
    IF S = {} THEN <<>>
    ELSE LET k == IF descending THEN Highest(S) ELSE Lowest(S)
         IN  <<k>> \o order_by(S \ {k}, descending)

\* prerequisites that forget to leave out the committed revisions
open_prereq_revisions_all(rv, cm, k) ==
    order_by(same_series_revisions(rv, k) \ {k}, rv[k].deleted)

\* self._open_prereq_revisions():
\* _same_series_revisions().exclude(id=self.id).filter(committed=None)
\*     .order_by(sort), adds and moves first to last, deletes last to first
open_prereq_revisions(rv, cm, k) ==
    order_by((same_series_revisions(rv, k) \ {k}) \ cm, rv[k].deleted)

\* self._committed_prereq_revisions(): the same with filter(committed=True)
\* and the sort reversed
committed_prereq_revisions(rv, cm, k) ==
    order_by((same_series_revisions(rv, k) \ {k}) \cap cm, ~rv[k].deleted)

\* open_prereqs.first()
first_prereq(rv, cm, k) == Head(open_prereq_revisions(rv, cm, k))

\* space is made for every revision that gets past the early return
ensures_unless_edit(r) == ~(r.edited /\ ~r.series_changed)

\* _pre_stats_measurement returns at once for an edit that stays in its
\* series
returns_early(r) == r.edited /\ ~r.series_changed

\* _pre_stats_measurement calls _ensure_sort_code_space for adds and moves
ensures_sort_code_space(r) == ~returns_early(r) /\ ~r.deleted

\* added, deleted, edited and series_changed of the revisions: an add, a
\* delete, an edit that stays in its series and a move
IssueRevisionKinds ==
    {[deleted |-> FALSE, edited |-> FALSE, series_changed |-> FALSE],
     [deleted |-> TRUE, edited |-> FALSE, series_changed |-> FALSE],
     [deleted |-> FALSE, edited |-> TRUE, series_changed |-> FALSE],
     [deleted |-> FALSE, edited |-> TRUE, series_changed |-> TRUE]}

NoApproval == UNCHANGED <<issueVars, nfailed, ncommits, batch, brandVars,
                          lockVars, disp, edit>>

\* commit_to_display of revision k starts: _pre_commit_check, then
\* _pre_stats_measurement returns early or makes sort-code space and
\* counts the open prerequisites
BeginCommit ==
    /\ cur = None
    /\ raised = "none"
    /\ \E k \in DOMAIN revs \ committed :
           /\ cur' = k
           /\ raised' = pre_commit_check(revs, committed, k)
           /\ open_prereq_count' =
                  IF raised' = "none" /\ ~returns_early(revs[k])
                  THEN Len(open_prereq_revisions(revs, committed, k))
                  ELSE 0
           /\ pc' = [op |-> "pre_stats_measurement", id |-> k,
                     ensured |-> /\ raised' = "none"
                                 /\ ensures_sort_code_space(revs[k])]
    /\ passes' = 0
    /\ UNCHANGED <<revs, committed>>
    /\ NoApproval

\* one pass of the loop: the first open prerequisite is committed, the set
\* is read again, and a set that has not shrunk ends the loop with
\* RuntimeError("... did not reduce ...")
PrereqPass ==
    /\ cur # None
    /\ raised = "none"
    /\ open_prereq_count > 0
    /\ LET p == first_prereq(revs, committed, cur)
           after_commit == IF revs[p].stuck THEN committed
                           ELSE committed \cup {p}
           new_count ==
               Len(open_prereq_revisions(revs, after_commit, cur))
       IN  /\ committed' = after_commit
           /\ pc' = [op |-> "prerequisite", id |-> p, ensured |-> FALSE]
           /\ passes' = passes + 1
           /\ IF new_count >= open_prereq_count
              THEN /\ raised' = "RuntimeError"
                   /\ UNCHANGED open_prereq_count
              ELSE /\ raised' = raised
                   /\ open_prereq_count' = new_count
    /\ UNCHANGED <<revs, cur>>
    /\ NoApproval

\* no prerequisite is open any more: the revision itself is committed
FinishCommit ==
    /\ cur # None
    /\ raised = "none"
    /\ open_prereq_count = 0
    /\ committed' = committed \cup {cur}
    /\ cur' = None
    /\ pc' = [op |-> "commit", id |-> cur, ensured |-> FALSE]
    /\ UNCHANGED <<revs, raised, open_prereq_count, passes>>
    /\ NoApproval

InitApproval ==
    /\ \E n \in 1..MaxRevs : \E kind \in IssueRevisionKinds :
           /\ revs \in [1..n -> [series : SeriesIds, after : BOOLEAN,
                                 deleted : {kind.deleted},
                                 edited : {kind.edited},
                                 series_changed : {kind.series_changed},
                                 stuck : BOOLEAN]]
           /\ \A k \in 1..n : kind.deleted => ~revs[k].after
    /\ committed = {}
    /\ cur = None
    /\ open_prereq_count = 0
    /\ passes = 0
    /\ issue = [i \in IssueIds |-> NoIssue]
    /\ series = [s \in SeriesIds |-> NoSeries]
    /\ pub = [p \in Publishers |-> [series_count |-> 0, issue_count |-> 0]]
    /\ stats = [k \in Buckets \X StatNames |-> 0]
    /\ raised = "none"
    /\ nfailed = 0
    /\ ncommits = 0
    /\ batch = NoBatch
    /\ BrandsAtRest
    /\ LocksAtRest
    /\ disp = <<>>
    /\ edit = <<>>
    /\ pc = [op |-> "none", id |-> None, ensured |-> FALSE]

NextApproval ==
    \/ BeginCommit
    \/ PrereqPass
    \/ FinishCommit

SpecApproval == InitApproval /\ [][NextApproval]_vars

\* every step that can be taken is taken: the approval is one sequential
\* unit of work
SpecApprovalFair == SpecApproval /\ WF_vars(NextApproval)

\* the revisions of series s that have `after` set
WithAfter(s) == {j \in DOMAIN revs : revs[j].series = s /\ revs[j].after}

\* the `after` settings of series s are the ones the check lets through
AftersInOrder(s) ==
    /\ Cardinality(WithAfter(s)) <= 1
    /\ \A j \in WithAfter(s) :
           \A i \in DOMAIN revs : revs[i].series = s => j <= i

\* C7: the pre-commit check ends the commit with a validation error, with
\* no revision of the series committed, exactly when more than one open
\* revision of the series has `after` set or the one that has it is not
\* the one with the lowest revision_sort_code; every commit that gets past
\* the check is of a series without either fault.
C7_PreCommitCheck ==
    /\ raised = "ValueError" =>
           /\ ~AftersInOrder(revs[cur].series)
           /\ same_series_revisions(revs, cur) \cap committed = {}
    /\ (cur # None /\ raised # "ValueError") => AftersInOrder(revs[cur].series)
    /\ \A k \in committed : AftersInOrder(revs[k].series)

\* the revision with `after` is alone in having it but is not the first
\* of its series, and the commit was refused
C7_Witness ==
    /\ raised = "ValueError"
    /\ Cardinality(WithAfter(revs[cur].series)) = 1
    /\ \E j \in committed : revs[j].series # revs[cur].series

ApprovalOver == raised # "none" \/ committed = DOMAIN revs

Members(q) == {q[n] : n \in DOMAIN q}

\* a sequence without repetition whose revision_sort_codes go up or go down
BySortCode(q, descending) ==
    \A m, n \in DOMAIN q :
        m < n => IF descending THEN q[m] > q[n] ELSE q[m] < q[n]

\* C39: the open prerequisites of an issue revision are exactly the
\* revisions of its series in the changeset, other than itself, that are
\* not committed yet, in increasing revision_sort_code for an add or a move
\* and in decreasing revision_sort_code for a delete; the committed
\* prerequisites are the committed ones of those siblings in the opposite
\* order.
C39_PrerequisitesInOrder ==
    \A k \in DOMAIN revs :
        LET siblings == {j \in DOMAIN revs \ {k} :
                            revs[j].series = revs[k].series}
            open == open_prereq_revisions(revs, committed, k)
            done == committed_prereq_revisions(revs, committed, k)
        IN  /\ Members(open) = siblings \ committed
            /\ Members(done) = siblings \cap committed
            /\ BySortCode(open, revs[k].deleted)
            /\ BySortCode(done, ~revs[k].deleted)

\* a delete of three revisions of one series under way: the revision being
\* committed has an open and a committed prerequisite, and another revision
\* of the changeset has two prerequisites of one kind
C39_Witness ==
    /\ cur # None
    /\ revs[cur].deleted
    /\ Len(open_prereq_revisions(revs, committed, cur)) = 1
    /\ Len(committed_prereq_revisions(revs, committed, cur)) = 1
    /\ \E k \in DOMAIN revs :
           Len(open_prereq_revisions(revs, committed, k)) = 2

\* C40: the pre-stats-measurement step of an issue revision makes no
\* sort-code space and commits no sibling when the revision is an edit
\* that stays in its series, and makes no sort-code space when the revision
\* is a delete; only adds and moves make sort-code space.
C40_PreStatsMeasurement ==
    [][/\ pc'.op = "pre_stats_measurement"
          => LET r == revs[pc'.id]
             IN  /\ (r.edited /\ ~r.series_changed)
                        => ~pc'.ensured /\ open_prereq_count' = 0
                 /\ r.deleted => ~pc'.ensured
                 /\ pc'.ensured
                        => ~r.deleted /\ (r.edited => r.series_changed)
                 /\ committed' = committed
       /\ pc'.op = "prerequisite"
          => ~(revs[cur].edited /\ ~revs[cur].series_changed)
      ]_vars

\* the step ran for an edit that stays in its series while another edit of
\* the series was open, and it ran for a delete that has open prerequisites
C40_Witness ==
    /\ pc.op = "pre_stats_measurement"
    /\ raised = "none"
    /\ ~pc.ensured
    /\ \/ /\ revs[pc.id].edited
          /\ ~revs[pc.id].series_changed
          /\ open_prereq_count = 0
          /\ Len(open_prereq_revisions(revs, committed, pc.id)) > 0
       \/ /\ revs[pc.id].deleted
          /\ open_prereq_count > 0

\* ------------------------------------ two added issues of one changeset
\* the bulk add is the scenario of two revisions at the beginning of a
\* series that had no issue row when the approval started
TwoAddsInNewSeries ==
    /\ batch.state # "idle"
    /\ batch.n = 2
    /\ batch.after = None
    /\ \A i \in IssueIds :
           batch.base[i].live => batch.base[i].series # batch.series

\* C11: two issue-add revisions of one changeset at the beginning of a new
\* series, committed in the order of their revision_sort_code, never fail
\* and never leave two issues of the series on one sort_code, and when both
\* are committed the two created issues hold the sort codes 0 and 1, the
\* issue of the second revision holding 1.
C11_TwoAddsInOrder ==
    TwoAddsInNewSeries =>
        /\ batch.state # "failed"
        /\ \A i, j \in IssuesOf(batch.series) :
               i # j => issue[i].sort_code # issue[j].sort_code
        /\ Cardinality(IssuesOf(batch.series)) = batch.done
        /\ batch.state = "done" =>
               /\ {issue[i].sort_code : i \in IssuesOf(batch.series)} = {0, 1}
               /\ issue[batch.prev].sort_code = 1

C11_Witness ==
    /\ TwoAddsInNewSeries
    /\ batch.state = "done"
    /\ Cardinality(IssuesOf(batch.series)) = 2
    /\ raised = "none"

\* ------------------------------------------------- fields of a revision
\* The field copies of clone_revision and commit_to_display for a series
\* and an issue.  disp holds the display fields the tables above leave
\* out, edit the revision, pc "idle", "cloned" or "committed".

\* field changes an editor makes to one revision
MaxEdits == 1
\* commits of one run of the field workflow
MaxFieldCommits == 2

FlagNames == {"has_issue_title", "has_volume", "has_indicia_frequency",
              "has_isbn", "has_barcode", "has_rating"}
\* values of the tuple of issue fields one flag governs: (title, no_title)
\* for has_issue_title, (volume, no_volume, display_volume_with_number) for
\* has_volume, and so on
FieldValues == {"v0", "v1"}
Numbers == {"1", "2"}
\* a name is the sequence of its words
Names == {<<"The", "Flash">>, <<"Flash">>}
\* keyword names in the order of the name column
KeywordOrder == <<"a", "b">>
\* a keywords string is the sequence of the parts between its ';'
KeywordStrings == {<<>>, <<"a">>, <<"b">>, <<"b", "a">>, <<"a", "a">>}
OnSaleYears == {None, 2016}
OnSaleMonths == {None, 1}
OnSaleDays == {None, 31}

\* re.match(r"\S?\w+['\s]\s*(.*)$", name): the first word goes when another
\* one follows it
remove_leading_article(name) ==
    IF Len(name) > 1 THEN Tail(name) ELSE name

\* the names of a keyword set in order_by('name')
OrderByName(kw) ==
    SelectSeq(KeywordOrder, LAMBDA k : k \in kw)

\* u'; '.join(unicode(i) for i in source.keywords.all().order_by('name'))
get_keywords(kw) == OrderByName(kw)

\* save_keywords(revision, source): the keywords of the display row and the
\* keywords string of the revision after the call
save_keywords(rev_keywords, kw) ==
    IF rev_keywords # <<>>
    THEN LET names == {rev_keywords[k] : k \in 1..Len(rev_keywords)}
         IN [source |-> names, revision |-> OrderByName(names)]
    ELSE [source |-> {}, revision |-> rev_keywords]

\* on_sale_date_as_string(revision): an on-sale date is the sequence of its
\* year, month and day parts up to the last known one, an unknown part
\* ('????', '??') being None
on_sale_date_as_string(y, m, d) ==
    IF d # None THEN <<y, m, d>>
    ELSE IF m # None THEN <<y, m>>
    ELSE IF y # None THEN <<y>>
    ELSE <<>>

\* on_sale_date_fields(on_sale_date)
on_sale_date_fields(date) ==
    [year |-> IF Len(date) >= 1 THEN date[1] ELSE None,
     month |-> IF Len(date) >= 2 THEN date[2] ELSE None,
     day |-> IF Len(date) >= 3 THEN date[3] ELSE None]

NoEdit == [kind |-> "none"]

\* IssueRevisionManager._do_create_revision
IssueRevision_do_create_revision(db, d, i) ==
    LET f == d.issue[i]
        date == IF f.on_sale_date # <<>>
                THEN on_sale_date_fields(f.on_sale_date)
                ELSE [year |-> None, month |-> None, day |-> None]
    IN  [kind |-> "issue", id |-> i, nedits |-> 0,
         number |-> f.number, cond |-> f.cond,
         series |-> db.issue[i].series,
         year_on_sale |-> date.year, month_on_sale |-> date.month,
         day_on_sale |-> date.day,
         keywords |-> get_keywords(f.keywords)]

\* a clone that never sets leading_article
SeriesRevision_clone_without_article(db, d, s) ==
    LET f == d.series[s]
    IN  [kind |-> "series", id |-> s, nedits |-> 0,
         name |-> f.name, leading_article |-> FALSE,
         has |-> f.has, keywords |-> get_keywords(f.keywords),
         is_singleton |-> db.series[s].is_singleton,
         is_comics_publication |-> db.series[s].is_comics_publication,
         bucket |-> db.series[s].bucket,
         publisher |-> db.series[s].publisher]

\* SeriesRevisionManager._do_create_revision
SeriesRevision_do_create_revision(db, d, s) ==
    LET f == d.series[s]
    IN  [kind |-> "series", id |-> s, nedits |-> 0,
         name |-> f.name, leading_article |-> f.name # f.sort_name,
         has |-> f.has, keywords |-> get_keywords(f.keywords),
         is_singleton |-> db.series[s].is_singleton,
         is_comics_publication |-> db.series[s].is_comics_publication,
         bucket |-> db.series[s].bucket,
         publisher |-> db.series[s].publisher]

\* The edit branch of IssueRevision.commit_to_display on the tables: the
\* counters move only when the revision names another series.
IssueRevision_edit(db, i, t) ==
    IF t # db.issue[i].series
    THEN IssueRevision_move(db, i, t)
    ELSE Result(db.issue, db.series, db.pub, db.stats, "none")

\* a flag that copies whatever the series says
has_field_ignored(has, f) == TRUE

\* self.series.has_<field>
has_field(has, f) == has[f]

\* The field copies of IssueRevision.commit_to_display: [issue, revision]
\* as the display row and the revision are saved.
IssueRevision_fields(d, r) ==
    LET f == d.issue[r.id]
        has == d.series[r.series].has
        kw == save_keywords(r.keywords, f.keywords)
    IN  [issue |->
            [number |-> r.number,
             cond |-> [c \in FlagNames |->
                          IF has_field(has, c) THEN r.cond[c]
                          ELSE f.cond[c]],
             on_sale_date |-> on_sale_date_as_string(
                 r.year_on_sale, r.month_on_sale, r.day_on_sale),
             keywords |-> kw.source],
         revision |->
            [r EXCEPT !.cond = [c \in FlagNames |->
                                   IF has_field(has, c) THEN r.cond[c]
                                   ELSE f.cond[c]],
                      !.keywords = kw.revision]]

\* self.save() in the else branches of the has_<field> tests has run when
\* issue.save() raises; the errors of the series move are raised before
saved_before_raise(exc) == exc = "IntegrityError"

\* The field copies of SeriesRevision.commit_to_display
SeriesRevision_fields(d, r) ==
    LET f == d.series[r.id]
        kw == save_keywords(r.keywords, f.keywords)
    IN  [series |->
            [name |-> r.name,
             sort_name |-> IF r.leading_article
                           THEN remove_leading_article(r.name)
                           ELSE r.name,
             has |-> r.has,
             keywords |-> kw.source],
         revision |-> [r EXCEPT !.keywords = kw.revision]]

FieldStep == UNCHANGED <<batch, brandVars, lockVars, prereqVars>>

\* clone_revision of an issue
CloneIssue ==
    /\ pc \in {"idle", "committed"}
    /\ ncommits < MaxFieldCommits
    /\ \E i \in ActiveIssues :
           edit' = IssueRevision_do_create_revision(DB, disp, i)
    /\ pc' = "cloned"
    /\ UNCHANGED <<issueVars, raised, nfailed, ncommits, disp>>
    /\ FieldStep

\* clone_revision of a series
CloneSeries ==
    /\ pc \in {"idle", "committed"}
    /\ ncommits < MaxFieldCommits
    /\ \E s \in ActiveSeries :
           edit' = SeriesRevision_do_create_revision(DB, disp, s)
    /\ pc' = "cloned"
    /\ UNCHANGED <<issueVars, raised, nfailed, ncommits, disp>>
    /\ FieldStep

\* the editor saves the form of the issue revision with one field changed
EditIssueRevision ==
    /\ pc = "cloned"
    /\ edit.kind = "issue"
    /\ edit.nedits < MaxEdits
    /\ \E r \in
           {[edit EXCEPT !.number = n] : n \in Numbers}
           \cup {[edit EXCEPT !.cond[c] = v] :
                     c \in FlagNames, v \in FieldValues}
           \cup {[edit EXCEPT !.series = t] : t \in ActiveSeries}
           \cup {[edit EXCEPT !.year_on_sale = y] : y \in OnSaleYears}
           \cup {[edit EXCEPT !.month_on_sale = m] : m \in OnSaleMonths}
           \cup {[edit EXCEPT !.day_on_sale = y] : y \in OnSaleDays}
           \cup {[edit EXCEPT !.keywords = k] : k \in KeywordStrings} :
           /\ r # edit
           /\ edit' = [r EXCEPT !.nedits = @ + 1]
    /\ UNCHANGED <<issueVars, raised, nfailed, ncommits, disp, pc>>
    /\ FieldStep

\* the editor saves the form of the series revision with one field changed
EditSeriesRevision ==
    /\ pc = "cloned"
    /\ edit.kind = "series"
    /\ edit.nedits < MaxEdits
    /\ \E r \in
           {[edit EXCEPT !.name = n] : n \in Names}
           \cup {[edit EXCEPT !.leading_article = b] : b \in BOOLEAN}
           \cup {[edit EXCEPT !.has[c] = ~@] : c \in FlagNames}
           \cup {[edit EXCEPT !.publisher = p] : p \in Publishers}
           \cup {[edit EXCEPT !.bucket = b] : b \in Buckets}
           \cup {[edit EXCEPT !.is_comics_publication = b] : b \in BOOLEAN}
           \cup {[edit EXCEPT !.keywords = k] : k \in KeywordStrings} :
           /\ r # edit
           /\ edit' = [r EXCEPT !.nedits = @ + 1]
    /\ UNCHANGED <<issueVars, raised, nfailed, ncommits, disp, pc>>
    /\ FieldStep

\* "series has_field changes during lifetime of issue changeset": the
\* series revision of another changeset, cloned and changed in one flag, is
\* committed while the issue revision is open
SeriesFlagChanges ==
    /\ pc = "cloned"
    /\ edit.kind = "issue"
    /\ ncommits < MaxFieldCommits
    /\ \E s \in ActiveSeries : \E c \in FlagNames :
       LET r0 == SeriesRevision_do_create_revision(DB, disp, s)
           r == [r0 EXCEPT !.has[c] = ~@]
       IN  /\ Apply(SeriesRevision_edit(DB, s, r.publisher, r.bucket,
                        r.is_comics_publication, r.is_singleton))
           /\ disp' = [disp EXCEPT
                          !.series[s] = SeriesRevision_fields(disp, r).series]
    /\ ncommits' = ncommits + 1
    /\ UNCHANGED <<edit, pc>>
    /\ FieldStep

\* commit_to_display of the issue revision
CommitIssueFields ==
    /\ pc = "cloned"
    /\ edit.kind = "issue"
    /\ LET r == IssueRevision_edit(DB, edit.id, edit.series)
           f == IssueRevision_fields(disp, edit)
       IN  /\ Apply(r)
           /\ IF r.raised = "none"
              THEN /\ disp' = [disp EXCEPT !.issue[edit.id] = f.issue]
                   /\ edit' = f.revision
              ELSE IF saved_before_raise(r.raised)
              THEN /\ edit' = [edit EXCEPT !.cond = f.revision.cond]
                   /\ UNCHANGED disp
              ELSE UNCHANGED <<disp, edit>>
    /\ pc' = "committed"
    /\ ncommits' = ncommits + 1
    /\ FieldStep

\* commit_to_display of the series revision
CommitSeriesFields ==
    /\ pc = "cloned"
    /\ edit.kind = "series"
    /\ LET f == SeriesRevision_fields(disp, edit)
       IN  /\ Apply(SeriesRevision_edit(DB, edit.id, edit.publisher,
                        edit.bucket, edit.is_comics_publication,
                        edit.is_singleton))
           /\ disp' = [disp EXCEPT !.series[edit.id] = f.series]
           /\ edit' = f.revision
    /\ pc' = "committed"
    /\ ncommits' = ncommits + 1
    /\ FieldStep

\* Two series and one issue exist when the run starts.
InitFields ==
    /\ issue = [i \in IssueIds |->
                   IF i = 1 THEN IssueRow(1, 0, None) ELSE NoIssue]
    /\ series = [s \in SeriesIds |->
                    IF s = 1
                    THEN [SeriesFixture("p1", "us_en", TRUE)
                             EXCEPT !.issue_count = 1]
                    ELSE SeriesFixture("p2", "de_de", TRUE)]
    /\ pub = [p \in Publishers |->
                [series_count |-> 1,
                 issue_count |-> IF p = "p1" THEN 1 ELSE 0]]
    /\ stats = [k \in Buckets \X StatNames |->
                   IF k[2] = "series" THEN 1
                   ELSE IF k = <<"us_en", "issues">> THEN 1 ELSE 0]
    /\ raised = "none"
    /\ nfailed = 0
    /\ ncommits = 0
    /\ batch = NoBatch
    /\ \E n \in Names : \E la \in BOOLEAN : \E kw \in SUBSET {"a", "b"} :
       \E y \in OnSaleYears : \E m \in OnSaleMonths : \E dy \in OnSaleDays :
           disp = [issue |->
                      [i \in {1} |->
                          [number |-> "1",
                           cond |-> [c \in FlagNames |-> "v0"],
                           on_sale_date |-> on_sale_date_as_string(y, m, dy),
                           keywords |-> kw]],
                   series |->
                      [s \in SeriesIds |->
                          [name |-> n,
                           sort_name |-> IF la
                                         THEN remove_leading_article(n)
                                         ELSE n,
                           has |-> [c \in FlagNames |-> TRUE],
                           keywords |-> kw]]]
    /\ edit = NoEdit
    /\ pc = "idle"
    /\ BrandsAtRest
    /\ LocksAtRest
    /\ NoChangeset

NextFields ==
    \/ CloneIssue
    \/ CloneSeries
    \/ EditIssueRevision
    \/ EditSeriesRevision
    \/ SeriesFlagChanges
    \/ CommitIssueFields
    \/ CommitSeriesFields

SpecFields == InitFields /\ [][NextFields]_vars

\* ------------------------------------------------ properties of the fields
\* the revision is as clone_revision made it
FreshClone ==
    /\ pc = "cloned"
    /\ edit = IF edit.kind = "issue"
              THEN IssueRevision_do_create_revision(DB, disp, edit.id)
              ELSE SeriesRevision_do_create_revision(DB, disp, edit.id)

\* C12: committing a revision that is as clone_revision made it changes no
\* field of the display row (name, sort_name, flags, number, the fields the
\* flags govern, on_sale_date, keywords), no row of the issue, series and
\* publisher tables with their cached counters, and no statistic, and the
\* commit raises nothing.
C12_RoundTrip ==
    [][(FreshClone /\ pc' = "committed")
           => (disp' = disp /\ UNCHANGED issueVars /\ raised' = "none")]_vars

C12_Witness ==
    /\ pc = "committed"
    /\ edit.kind = "series"
    /\ edit.nedits = 0
    /\ edit.leading_article
    /\ disp.series[edit.id].sort_name # disp.series[edit.id].name
    /\ disp.series[edit.id].keywords # {}

\* C18: when an issue revision is committed, for each of the six has_<field>
\* flags of its series: if the flag is false the display issue keeps the
\* fields the flag governs and the revision's copies of them are overwritten
\* with the display issue's values; if the flag is true the display issue
\* takes the revision's values.
C18_ConditionalFields ==
    [][(pc = "cloned" /\ pc' = "committed" /\ edit.kind = "issue"
            /\ raised' = "none")
           => \A c \in FlagNames :
                  IF disp.series[edit.series].has[c]
                  THEN /\ disp'.issue[edit.id].cond[c] = edit.cond[c]
                       /\ edit'.cond[c] = edit.cond[c]
                  ELSE /\ disp'.issue[edit.id].cond[c]
                              = disp.issue[edit.id].cond[c]
                       /\ edit'.cond[c] = disp.issue[edit.id].cond[c]]_vars

\* a committed issue revision whose one edited field was resynced
C18_Witness ==
    /\ pc = "committed"
    /\ edit.kind = "issue"
    /\ edit.nedits = 1
    /\ raised = "none"
    /\ issue[edit.id].series = 1
    /\ disp.issue[edit.id].keywords = {}
    /\ \E c \in FlagNames : ~disp.series[edit.series].has[c]
    /\ [edit EXCEPT !.nedits = 0]
           = IssueRevision_do_create_revision(DB, disp, edit.id)

\* ------------------------------------------ reprint links and series bonds
\* disp.links holds the rows of the four reprint tables and of the series
\* bond table, edit the rows of oi_reprint_revision and
\* oi_series_bond_revision, pc the call that ran last.

MaxLinks == 3
MaxLinkRevs == 4
LinkIds == 1..MaxLinks
LinkRevIds == 1..MaxLinkRevs

\* REPRINT_TYPES
ReprintTypes == {"story_to_story", "issue_to_story", "story_to_issue",
                 "issue_to_issue"}
Stories == {"story1", "story2"}
\* a story revision of the changeset, and the story it was committed to
StoryRevisions == {"story_revision2"}
story_of(story_revision) == "story3"
LinkIssues == {"issue1"}
LinkNotes == {"n0", "n1"}

NoLink == [live |-> FALSE]
NoLinkRev == [live |-> FALSE, model |-> "none"]

\* a row of gcd_reprint, gcd_reprint_from_issue, gcd_reprint_to_issue or
\* gcd_issue_reprint, by its kind
LinkRow(kind, origin, target, notes) ==
    [live |-> TRUE, kind |-> kind, origin |-> origin, target |-> target,
     notes |-> notes, reserved |-> FALSE]

FreeLinkIds(links) == {l \in LinkIds : ~links[l].live}
NewLinkId(links) == CHOOSE l \in FreeLinkIds(links) :
                        \A m \in FreeLinkIds(links) : l <= m
FreeLinkRevIds(rv) == {k \in LinkRevIds : ~rv[k].live}
NewLinkRevId(rv) == CHOOSE k \in FreeLinkRevIds(rv) :
                        \A j \in FreeLinkRevIds(rv) : k <= j

\* the revisions whose foreign key for this kind of link names row l
\* (deleted_link.revisions.all(), series_bond.revisions.all())
revisions_of(rv, kind, l) ==
    {k \in LinkRevIds :
        /\ rv[k].live
        /\ IF kind = "series_bond"
           THEN rv[k].model = "bond" /\ rv[k].series_bond = l
           ELSE IF kind = "brand_use"
           THEN rv[k].model = "use" /\ rv[k].brand_use = l
           ELSE rv[k].model = "reprint" /\ rv[k].fk[kind] = l}

\* a lookup that takes any revision of the row, approved or not
latest_of_any_state(rv, kind, l) ==
    {k \in revisions_of(rv, kind, l) :
        \A j \in LinkRevIds :
            rv[j].live => rv[j].previous_revision # k}

\* objects.filter(<link>=l, next_revision=None,
\*                changeset__state=states.APPROVED)
latest_approved(rv, kind, l) ==
    {k \in revisions_of(rv, kind, l) :
        /\ rv[k].state = "APPROVED"
        /\ \A j \in LinkRevIds :
               rv[j].live => rv[j].previous_revision # k}

\* the exception of objects.get() over the rows S, "none" for one row
get_raises(S) ==
    IF S = {} THEN "DoesNotExist"
    ELSE IF Cardinality(S) > 1 THEN "MultipleObjectsReturned"
    ELSE "none"

LinkResult(links, rv, exc) ==
    [links |-> links, revisions |-> rv, raised |-> exc]

\* ReprintRevisionManager._do_create_revision
ReprintRevision_do_create_revision(links, rv, l) ==
    LET row == links[l]
        S == latest_approved(rv, row.kind, l)
        new == NewLinkRevId(rv)
        story_origin == row.kind \in {"story_to_story", "story_to_issue"}
        story_target == row.kind \in {"story_to_story", "issue_to_story"}
    IN  IF get_raises(S) # "none"
        THEN LinkResult(links, rv, get_raises(S))
        ELSE LinkResult(links,
                 [rv EXCEPT ![new] =
                     [live |-> TRUE, model |-> "reprint",
                      fk |-> [t \in ReprintTypes |->
                                 IF t = row.kind THEN l ELSE None],
                      in_type |-> row.kind, out_type |-> "",
                      origin_story |-> IF story_origin THEN row.origin
                                       ELSE "",
                      origin_revision |-> "",
                      origin_issue |-> IF story_origin THEN ""
                                       ELSE row.origin,
                      target_story |-> IF story_target THEN row.target
                                       ELSE "",
                      target_revision |-> "",
                      target_issue |-> IF story_target THEN ""
                                       ELSE row.target,
                      notes |-> row.notes, deleted |-> FALSE,
                      previous_revision |-> CHOOSE k \in S : TRUE,
                      state |-> "OPEN"]],
                 "none")

\* SeriesBondRevisionManager._do_create_revision: the revision is saved,
\* then the previous revision is looked up
SeriesBondRevision_do_create_revision(links, rv, l) ==
    LET row == links[l]
        new == NewLinkRevId(rv)
        saved == [rv EXCEPT ![new] =
                     [live |-> TRUE, model |-> "bond", series_bond |-> l,
                      origin |-> row.origin, target |-> row.target,
                      notes |-> row.notes, deleted |-> FALSE,
                      previous_revision |-> None, state |-> "OPEN"]]
        S == latest_approved(saved, "series_bond", l)
    IN  IF get_raises(S) # "none"
        THEN LinkResult(links, saved, get_raises(S))
        ELSE LinkResult(links,
                 [saved EXCEPT ![new].previous_revision =
                                   CHOOSE k \in S : TRUE],
                 "none")

\* an out_type that looks at origin_story and target_story alone
out_type_of_stories(r) ==
    IF r.origin_story # ""
    THEN IF r.target_story # "" THEN "story_to_story"
         ELSE "story_to_issue"
    ELSE IF r.target_story # "" THEN "issue_to_story"
         ELSE "issue_to_issue"

\* the out_type commit_to_display works out from the fields that are set
out_type_of(r) ==
    IF r.origin_story # "" \/ r.origin_revision # ""
    THEN IF r.target_story # "" \/ r.target_revision # ""
         THEN "story_to_story"
         ELSE "story_to_issue"
    ELSE IF r.target_story # "" \/ r.target_revision # ""
         THEN "issue_to_story"
         ELSE "issue_to_issue"

\* self.origin_story = self.origin_revision.story;
\* self.origin_revision = None (and the same for the target)
resolve_story_revisions(r) ==
    [r EXCEPT !.origin_story = IF r.origin_revision # ""
                               THEN story_of(r.origin_revision) ELSE @,
              !.origin_revision = "",
              !.target_story = IF r.target_revision # ""
                               THEN story_of(r.target_revision) ELSE @,
              !.target_revision = ""]

\* a change of type that leaves the foreign keys of the revisions alone
detach_nothing(rv, kind, l) == rv

\* a loop that clears the foreign keys of reprint revisions only
detach_reprints_only(rv, kind, l) ==
    [k \in LinkRevIds |->
        IF k \in revisions_of(rv, kind, l) /\ rv[k].model = "reprint"
        THEN [rv[k] EXCEPT !.fk[kind] = None]
        ELSE rv[k]]

\* for revision in deleted_link.revisions.all():
\*     setattr(revision, field_name, None); revision.save()
detach(rv, kind, l) ==
    [k \in LinkRevIds |->
        IF k \in revisions_of(rv, kind, l)
        THEN IF kind = "series_bond"
             THEN [rv[k] EXCEPT !.series_bond = None]
             ELSE IF kind = "brand_use"
             THEN [rv[k] EXCEPT !.brand_use = None]
             ELSE [rv[k] EXCEPT !.fk[kind] = None]
        ELSE rv[k]]

\* a commit that changes the type and keeps the revision's own key of the
\* old type
ReprintRevision_commit_keeps_key(links, rv, k) ==
    LET r == resolve_story_revisions(rv[k])
        out_type == out_type_of(rv[k])
        origin == IF out_type \in {"story_to_story", "story_to_issue"}
                  THEN r.origin_story ELSE r.origin_issue
        target == IF out_type \in {"story_to_story", "issue_to_story"}
                  THEN r.target_story ELSE r.target_issue
        old == r.fk[r.in_type]
        changed == r.in_type # out_type
        rv1 == IF changed
               THEN [detach(rv, r.in_type, old) EXCEPT ![k].fk[r.in_type] = old]
               ELSE rv
        links1 == IF changed THEN [links EXCEPT ![old] = NoLink] ELSE links
        l == IF changed THEN NewLinkId(links) ELSE old
    IN  LinkResult(
            [links1 EXCEPT ![l] = LinkRow(out_type, origin, target, r.notes)],
            [rv1 EXCEPT ![k] = [r EXCEPT !.fk = [rv1[k].fk EXCEPT
                                                    ![out_type] = l],
                                         !.out_type = out_type,
                                         !.state = "APPROVED"]],
            "none")

\* ReprintRevision.commit_to_display of revision k, which is not deleted;
\* the changeset of the revision is approved with it
ReprintRevision_commit(links, rv, k) ==
    LET r == resolve_story_revisions(rv[k])
        out_type == out_type_of(rv[k])
        origin == IF out_type \in {"story_to_story", "story_to_issue"}
                  THEN r.origin_story ELSE r.origin_issue
        target == IF out_type \in {"story_to_story", "issue_to_story"}
                  THEN r.target_story ELSE r.target_issue
        old == r.fk[r.in_type]
        changed == r.in_type # out_type
        rv1 == IF changed THEN detach(rv, r.in_type, old) ELSE rv
        links1 == IF changed THEN [links EXCEPT ![old] = NoLink] ELSE links
        l == IF changed THEN NewLinkId(links) ELSE old
    IN  LinkResult(
            [links1 EXCEPT ![l] = LinkRow(out_type, origin, target, r.notes)],
            [rv1 EXCEPT ![k] = [r EXCEPT !.fk = [rv1[k].fk EXCEPT
                                                    ![out_type] = l],
                                         !.out_type = out_type,
                                         !.state = "APPROVED"]],
            "none")

\* ------------------------------------------ the source of a reprint revision
\* reading a foreign key: no row for None, DoesNotExist for the id of a row
\* that is gone
related(links, l) ==
    IF l = None THEN [raised |-> "none", row |-> None]
    ELSE IF links[l].live THEN [raised |-> "none", row |-> l]
    ELSE [raised |-> "DoesNotExist", row |-> None]

\* a lookup that goes by in_type first
get_source_by_in_type(links, r, state) ==
    IF r.deleted /\ state = "APPROVED"
    THEN [raised |-> "none", row |-> None]
    ELSE IF r.in_type # "" THEN related(links, r.fk[r.in_type])
    ELSE IF r.out_type # "" THEN related(links, r.fk[r.out_type])
    ELSE [raised |-> "none", row |-> None]

\* ReprintRevision._get_source; state is self.changeset.state
get_source(links, r, state) ==
    IF r.deleted /\ state = "APPROVED"
    THEN [raised |-> "none", row |-> None]
    ELSE IF r.out_type # "" THEN related(links, r.fk[r.out_type])
    ELSE IF r.in_type # "" THEN related(links, r.fk[r.in_type])
    ELSE [raised |-> "none", row |-> None]

\* ReprintRevision.commit_to_display, SeriesBondRevision.commit_to_display
\* and BrandUseRevision.commit_to_display of a deleting revision
LinkRevision_delete(links, rv, k) ==
    LET kind == IF rv[k].model = "bond" THEN "series_bond"
                ELSE IF rv[k].model = "use" THEN "brand_use"
                ELSE rv[k].in_type
        old == IF rv[k].model = "bond" THEN rv[k].series_bond
               ELSE IF rv[k].model = "use" THEN rv[k].brand_use
               ELSE rv[k].fk[kind]
    IN  LinkResult([links EXCEPT ![old] = NoLink],
                   [detach(rv, kind, old) EXCEPT ![k].state = "APPROVED"],
                   "none")

\* ReprintRevision.commit_to_display of a deleting revision whose changeset
\* is in `state`: deleted_link = self.source; deleted_link.revisions.all()
ReprintRevision_delete(links, rv, k, state) ==
    LET s == get_source(links, rv[k], state)
    IN  IF s.raised # "none" THEN LinkResult(links, rv, s.raised)
        ELSE IF s.row = None THEN LinkResult(links, rv, "AttributeError")
        ELSE LinkRevision_delete(links, rv, k)

\* SeriesBondRevision.commit_to_display of revision k, which is not deleted
SeriesBondRevision_commit(links, rv, k) ==
    LET r == rv[k]
    IN  LinkResult(
            [links EXCEPT ![r.series_bond] =
                LinkRow("series_bond", r.origin, r.target, r.notes)],
            [rv EXCEPT ![k].state = "APPROVED"],
            "none")

\* BrandUseRevisionManager._do_create_revision: the revision is saved with
\* the fields of the row; no previous revision is looked up
BrandUseRevision_do_create_revision(links, rv, l) ==
    LET row == links[l]
        new == NewLinkRevId(rv)
    IN  LinkResult(links,
            [rv EXCEPT ![new] =
                [live |-> TRUE, model |-> "use", brand_use |-> l,
                 origin |-> row.origin, target |-> row.target,
                 notes |-> row.notes, deleted |-> FALSE,
                 previous_revision |-> None, state |-> "OPEN"]],
            "none")

\* BrandUseRevision.commit_to_display: a revision without a row creates
\* one, whether it is marked deleted or not
BrandUseRevision_commit(links, rv, k) ==
    LET r == rv[k]
        l == IF r.brand_use = None THEN NewLinkId(links) ELSE r.brand_use
    IN  IF r.brand_use # None /\ r.deleted
        THEN LinkRevision_delete(links, rv, k)
        ELSE LinkResult(
                 [links EXCEPT ![l] =
                     LinkRow("brand_use", r.origin, r.target, r.notes)],
                 [rv EXCEPT ![k].brand_use = l, ![k].state = "APPROVED"],
                 "none")

LinkStep(call, r) ==
    /\ disp' = [links |-> r.links]
    /\ edit' = r.revisions
    /\ raised' = r.raised
    /\ pc' = call
    /\ UNCHANGED <<issueVars, nfailed, ncommits, batch, brandVars,
                   lockVars, prereqVars>>

LiveLinks == {l \in LinkIds : disp.links[l].live}
OpenLinkRevs == {k \in LinkRevIds : edit[k].live /\ edit[k].state = "OPEN"}

\* clone_revision of a reprint link
CloneReprint ==
    \E l \in LiveLinks :
        /\ disp.links[l].kind \in ReprintTypes
        /\ FreeLinkRevIds(edit) # {}
        /\ LinkStep([op |-> "clone", id |-> l],
                    ReprintRevision_do_create_revision(disp.links, edit, l))

\* clone_revision of a series bond
CloneSeriesBond ==
    \E l \in LiveLinks :
        /\ disp.links[l].kind = "series_bond"
        /\ FreeLinkRevIds(edit) # {}
        /\ LinkStep([op |-> "clone", id |-> l],
                    SeriesBondRevision_do_create_revision(disp.links, edit, l))

\* clone_revision of a brand use
CloneBrandUse ==
    \E l \in LiveLinks :
        /\ disp.links[l].kind = "brand_use"
        /\ FreeLinkRevIds(edit) # {}
        /\ LinkStep([op |-> "clone_use", id |-> l],
                    BrandUseRevision_do_create_revision(disp.links, edit, l))

\* the editor saves the form of an open revision: another origin or target,
\* other notes, or the mark that deletes the link
EditLinkRevision ==
    \E k \in OpenLinkRevs :
    \E r \in
        IF edit[k].model # "reprint"
        THEN {[edit[k] EXCEPT !.notes = n] : n \in LinkNotes}
             \cup {[edit[k] EXCEPT !.deleted = TRUE]}
        ELSE {[edit[k] EXCEPT !.notes = n] : n \in LinkNotes}
             \cup {[edit[k] EXCEPT !.deleted = TRUE]}
             \cup {[edit[k] EXCEPT !.target_story = s, !.target_issue = "",
                                   !.target_revision = ""] : s \in Stories}
             \cup {[edit[k] EXCEPT !.target_story = "", !.target_issue = i,
                                   !.target_revision = ""] : i \in LinkIssues}
             \cup {[edit[k] EXCEPT !.target_revision = v,
                                   !.target_issue = ""] : v \in StoryRevisions}
             \cup {[edit[k] EXCEPT !.origin_story = s, !.origin_issue = "",
                                   !.origin_revision = ""] : s \in Stories}
             \cup {[edit[k] EXCEPT !.origin_story = "", !.origin_issue = i,
                                   !.origin_revision = ""] : i \in LinkIssues}
             \cup {[edit[k] EXCEPT !.origin_revision = v,
                                   !.origin_issue = ""] : v \in StoryRevisions} :
        /\ ~edit[k].deleted
        /\ r # edit[k]
        /\ LinkStep([op |-> "edit", id |-> k],
                    LinkResult(disp.links, [edit EXCEPT ![k] = r], raised))

\* the changeset of an open revision is approved
CommitLinkRevision ==
    \E k \in OpenLinkRevs :
        /\ edit[k].model # "use" => edit[k].previous_revision # None
        /\ IF edit[k].model = "reprint"
           THEN /\ edit[k].fk[edit[k].in_type] # None
                /\ edit[k].deleted
                       \/ edit[k].in_type = out_type_of(edit[k])
                       \/ FreeLinkIds(disp.links) # {}
           ELSE IF edit[k].model = "bond"
           THEN edit[k].series_bond # None
           ELSE edit[k].brand_use # None \/ FreeLinkIds(disp.links) # {}
        /\ LinkStep([op |-> "commit", id |-> k],
                    IF edit[k].model = "use"
                    THEN BrandUseRevision_commit(disp.links, edit, k)
                    ELSE IF edit[k].deleted
                    THEN LinkRevision_delete(disp.links, edit, k)
                    ELSE IF edit[k].model = "reprint"
                    THEN ReprintRevision_commit(disp.links, edit, k)
                    ELSE SeriesBondRevision_commit(disp.links, edit, k))

\* the changeset of a deleting reprint revision is set to APPROVED and the
\* revision is committed after that
CommitDeleteOfApproved ==
    \E k \in OpenLinkRevs :
        /\ edit[k].model = "reprint"
        /\ edit[k].deleted
        /\ edit[k].previous_revision # None
        /\ edit[k].fk[edit[k].in_type] # None
        /\ LinkStep([op |-> "commit_approved", id |-> k],
                    ReprintRevision_delete(
                        disp.links, [edit EXCEPT ![k].state = "APPROVED"],
                        k, "APPROVED"))

\* the approved revision a link row was created by
ApprovedLinkRev(model, kind, l, origin, target) ==
    IF model = "bond"
    THEN [live |-> TRUE, model |-> "bond", series_bond |-> l,
          origin |-> origin, target |-> target, notes |-> "n0",
          deleted |-> FALSE, previous_revision |-> None,
          state |-> "APPROVED"]
    ELSE IF model = "use"
    THEN [live |-> TRUE, model |-> "use", brand_use |-> l,
          origin |-> origin, target |-> target, notes |-> "n0",
          deleted |-> FALSE, previous_revision |-> None,
          state |-> "APPROVED"]
    ELSE [live |-> TRUE, model |-> "reprint",
          fk |-> [t \in ReprintTypes |-> IF t = kind THEN l ELSE None],
          in_type |-> "", out_type |-> kind,
          origin_story |-> origin, origin_revision |-> "",
          origin_issue |-> "",
          target_story |-> target, target_revision |-> "",
          target_issue |-> "",
          notes |-> "n0", deleted |-> FALSE, previous_revision |-> None,
          state |-> "APPROVED"]

\* A story-to-story reprint exists and either a series bond or a brand use,
\* each with the approved revision that created it; the reprint or the
\* series bond may have a second approved revision without a successor.
InitLinks ==
    /\ issue = [i \in IssueIds |-> NoIssue]
    /\ series = [s \in SeriesIds |-> NoSeries]
    /\ pub = [p \in Publishers |-> [series_count |-> 0, issue_count |-> 0]]
    /\ stats = [k \in Buckets \X StatNames |-> 0]
    /\ raised = "none"
    /\ nfailed = 0
    /\ ncommits = 0
    /\ batch = NoBatch
    /\ \E second \in {"bond", "use"} :
       \E twice \in IF second = "bond" THEN {None, 1, 2} ELSE {None} :
           /\ disp = [links |->
                         [l \in LinkIds |->
                             IF l = 1
                             THEN LinkRow("story_to_story", "story1",
                                          "story2", "n0")
                             ELSE IF l = 2 /\ second = "bond"
                             THEN LinkRow("series_bond", "series1",
                                          "series2", "n0")
                             ELSE IF l = 2
                             THEN LinkRow("brand_use", "brand1", "p1", "n0")
                             ELSE NoLink]]
           /\ edit = [k \in LinkRevIds |->
                         IF k = 1 \/ (k = 3 /\ twice = 1)
                         THEN ApprovedLinkRev("reprint", "story_to_story", 1,
                                              "story1", "story2")
                         ELSE IF (k = 2 \/ (k = 3 /\ twice = 2))
                                 /\ second = "bond"
                         THEN ApprovedLinkRev("bond", "series_bond", 2,
                                              "series1", "series2")
                         ELSE IF k = 2
                         THEN ApprovedLinkRev("use", "brand_use", 2,
                                              "brand1", "p1")
                         ELSE NoLinkRev]
    /\ pc = [op |-> "none", id |-> None]
    /\ BrandsAtRest
    /\ LocksAtRest
    /\ NoChangeset

NextLinks ==
    \/ CloneReprint
    \/ CloneSeriesBond
    \/ CloneBrandUse
    \/ EditLinkRevision
    \/ CommitLinkRevision
    \/ CommitDeleteOfApproved

SpecLinks == InitLinks /\ [][NextLinks]_vars

\* ------------------------------------------------ properties of the links
\* revision k was cloned from a story-to-story link and names a whole issue
\* as its target
StoryToIssueEdit(k) ==
    /\ edit[k].live
    /\ edit[k].model = "reprint"
    /\ edit[k].state = "OPEN"
    /\ ~edit[k].deleted
    /\ edit[k].in_type = "story_to_story"
    /\ edit[k].origin_story # ""
    /\ edit[k].origin_revision = ""
    /\ edit[k].target_story = ""
    /\ edit[k].target_revision = ""
    /\ edit[k].target_issue # ""

\* C13: committing a reprint revision that was cloned from a story-to-story
\* link and edited to target a whole issue creates a story-to-issue row with
\* the revision's origin story, target issue and notes, which the revision
\* then references, deletes the story-to-story row, and leaves no revision
\* with a reference to the deleted row.
C13_StoryToIssue ==
    [][\A k \in LinkRevIds :
           (StoryToIssueEdit(k) /\ pc' = [op |-> "commit", id |-> k])
               => LET old == edit[k].fk["story_to_story"]
                      new == edit'[k].fk["story_to_issue"]
                  IN  /\ new # None
                      /\ ~disp.links[new].live
                      /\ disp'.links[new] =
                             LinkRow("story_to_issue", edit[k].origin_story,
                                     edit[k].target_issue, edit[k].notes)
                      /\ disp.links[old].live
                      /\ ~disp'.links[old].live
                      /\ \A j \in LinkRevIds :
                             (edit'[j].live /\ edit'[j].model = "reprint")
                                 => edit'[j].fk["story_to_story"] # old]_vars

C13_Witness ==
    \E k \in LinkRevIds :
        /\ pc = [op |-> "commit", id |-> k]
        /\ edit[k].model = "reprint"
        /\ edit[k].in_type = "story_to_story"
        /\ edit[k].out_type = "story_to_issue"
        /\ edit[k].notes = "n1"
        /\ edit[k].fk["story_to_issue"] # None
        /\ disp.links[edit[k].fk["story_to_issue"]].kind = "story_to_issue"
        /\ \E j \in LinkRevIds \ {k} :
               edit[j].live /\ edit[j].model = "reprint"

\* the revisions of link row l that belong to an approved changeset and
\* have no successor
ApprovedWithoutSuccessor(l) ==
    {k \in LinkRevIds :
        /\ edit[k].live
        /\ IF disp.links[l].kind = "series_bond"
           THEN edit[k].model = "bond" /\ edit[k].series_bond = l
           ELSE edit[k].model = "reprint"
                /\ edit[k].fk[disp.links[l].kind] = l
        /\ edit[k].state = "APPROVED"
        /\ ~\E j \in LinkRevIds :
               edit[j].live /\ edit[j].previous_revision = k}

CreatedRevisions == {k \in LinkRevIds : ~edit[k].live /\ edit'[k].live}

\* C16: clone_revision of a series bond or a reprint link returns a revision
\* whose previous_revision is the one revision of the row that is approved
\* and has no successor; when there is no such revision or more than one,
\* the call raises DoesNotExist or MultipleObjectsReturned and no revision
\* with a previous_revision comes into being.
C16_PreviousRevision ==
    [][\A l \in LinkIds :
           pc' = [op |-> "clone", id |-> l]
               => IF Cardinality(ApprovedWithoutSuccessor(l)) = 1
                  THEN /\ raised' = "none"
                       /\ Cardinality(CreatedRevisions) = 1
                       /\ \A k \in CreatedRevisions :
                              /\ edit'[k].previous_revision
                                     \in ApprovedWithoutSuccessor(l)
                              /\ edit'[k].state = "OPEN"
                  ELSE /\ raised' = IF ApprovedWithoutSuccessor(l) = {}
                                    THEN "DoesNotExist"
                                    ELSE "MultipleObjectsReturned"
                       /\ \A k \in CreatedRevisions :
                              edit'[k].previous_revision = None]_vars

\* a second clone of a reprint link has failed while the revision of the
\* first one is open
C16_Witness ==
    /\ pc.op = "clone"
    /\ raised = "DoesNotExist"
    /\ disp.links[pc.id].live
    /\ disp.links[pc.id].kind = "story_to_story"
    /\ \E k \in OpenLinkRevs :
           /\ edit[k].model = "reprint"
           /\ edit[k].fk["story_to_story"] = pc.id
           /\ edit[k].previous_revision # None

\* C17: a clone_revision that fails for want of a unique latest approved
\* revision has persisted no revision row and changed no row.
C17_FailedCloneMutatesNothing ==
    [][(pc'.op = "clone" /\ raised' # "none")
           => (edit' = edit /\ disp' = disp)]_vars

\* --------------------------------------------- properties of the series
\* the sum of one statistic over the buckets
RECURSIVE SumOver(_, _, _)
SumOver(st, name, B) ==
    IF B = {} THEN 0
    ELSE LET b == CHOOSE x \in B : TRUE
         IN st[<<b, name>>] + SumOver(st, name, B \ {b})

\* this step commits an edit that moves series s to another bucket
BucketChanges(s) ==
    /\ series[s].live
    /\ series'[s].bucket # series[s].bucket

\* what the step takes out of the old bucket of s it puts into the new one
MovedBetweenBuckets(s) ==
    \A n \in StatNames :
        /\ stats'[<<series'[s].bucket, n>>] - stats[<<series'[s].bucket, n>>]
               = stats[<<series[s].bucket, n>>] - stats'[<<series[s].bucket, n>>]
        /\ SumOver(stats', n, Buckets) = SumOver(stats, n, Buckets)

BecomesSingleton(s) ==
    /\ series'[s].live
    /\ series'[s].is_singleton
    /\ ~(series[s].live /\ series[s].is_singleton)

\* this step commits an edit that switches is_singleton of s off
SingletonSwitchedOff(s) ==
    /\ series[s].live
    /\ series[s].is_singleton
    /\ ~series'[s].is_singleton

\* C14 as stated: a series revision commit that makes a series a singleton
\* leaves it with a placeholder issue, and one that switches is_singleton
\* off removes the placeholder issue the series had.
C14_SingletonPlaceholder ==
    [][\A s \in SeriesIds :
           /\ BecomesSingleton(s) => active_issues(issue', s) # {}
           /\ (SingletonSwitchedOff(s) /\ active_issues(issue, s) # {})
                  => active_issues(issue', s) # active_issues(issue, s)
      ]_vars

\* C15: the commit of an added series revision with is_singleton and
\* is_comics_publication raises nothing, raises the series_count and the
\* issue_count of the publisher by exactly 1 each (and the 'series' and
\* 'issues' statistics of its bucket), leaves the other publisher alone,
\* and the new series has issue_count 1 and one issue, at sort_code 0.
C15_SingletonCountedOnce ==
    [][\A s \in SeriesIds :
           (~series[s].live /\ series'[s].live /\ series'[s].is_singleton
                /\ series'[s].is_comics_publication)
               => LET p == series'[s].publisher
                      b == series'[s].bucket
                  IN  /\ raised' = "none"
                      /\ pub'[p].series_count = pub[p].series_count + 1
                      /\ pub'[p].issue_count = pub[p].issue_count + 1
                      /\ \A q \in Publishers \ {p} : pub'[q] = pub[q]
                      /\ series'[s].issue_count = 1
                      /\ \E i \in IssueIds :
                             /\ ~issue[i].live
                             /\ issue'[i] = IssueRow(s, 0, None)
                             /\ active_issues(issue', s) = {i}
                      /\ stats'[<<b, "series">>] = stats[<<b, "series">>] + 1
                      /\ stats'[<<b, "issues">>] = stats[<<b, "issues">>] + 1
      ]_vars

\* the one commit of the run has added a singleton comics publication
C15_Witness ==
    /\ ncommits = 1
    /\ raised = "none"
    /\ \E s \in SeriesIds :
           /\ series[s].live
           /\ series[s].is_singleton
           /\ series[s].is_comics_publication
           /\ series[s].issue_count = 1
           /\ Cardinality(active_issues(issue, s)) = 1
           /\ pub[series[s].publisher] = [series_count |-> 1, issue_count |-> 1]

\* ------------------------------------------------------ field classification
\* The classification of the fields of a display entity against its revision
\* type.  disp describes the two types: for every field name the kind of the
\* field on the display entity and on the revision ("none" when the type has
\* no such field, "value" for a scalar or to-one field, "many" for a to-many
\* field, "tags" for a tag collection); edit is the classification.

ClassifiedNames == {"number", "series", "keywords", "sort_code", "reserved"}
\* Revision._get_excluded_field_names(): identity and audit columns and the
\* reserved flag
ExcludedNames == {"reserved"}
DataKinds == {"none", "value", "many", "tags"}
RevisionKinds == {"none", "value", "many"}

\* the fields of the display entity that are not excluded
DataFields(types) ==
    {n \in ClassifiedNames \ ExcludedNames : types.data[n] # "none"}

\* a regular field is on both sides with the same kind; keywords is regular
\* although it is a tag collection on one side and a string on the other
is_regular(types, n) ==
    \/ n = "keywords"
    \/ types.revision[n] = types.data[n]

\* a classification that takes keywords for a single-value field
classify_keywords_single(types) ==
    LET regular == {n \in DataFields(types) : is_regular(types, n)}
    IN  [regular |-> regular,
         irregular |-> DataFields(types) \ regular,
         single_value |-> {n \in regular : types.data[n] # "many"},
         multi_value |-> {n \in regular : types.data[n] = "many"}]

\* _get_regular_fields(), _get_irregular_fields(),
\* _get_single_value_fields(), _get_multi_value_fields()
classify_fields(types) ==
    LET regular == {n \in DataFields(types) : is_regular(types, n)}
    IN  [regular |-> regular,
         irregular |-> DataFields(types) \ regular,
         single_value |-> {n \in regular : types.data[n] = "value"},
         multi_value |-> {n \in regular : types.data[n] = "many"}]

\* the classification of a revision type is computed
Classify ==
    /\ pc = "types"
    /\ edit' = classify_fields(disp)
    /\ pc' = "classified"
    /\ UNCHANGED <<issueVars, raised, nfailed, ncommits, batch, disp,
                   brandVars, lockVars, prereqVars>>

\* Any pair of a display entity and a revision type over the five names; a
\* keywords field is a tag collection on the entity and a string on the
\* revision.
InitClassify ==
    /\ issue = [i \in IssueIds |-> NoIssue]
    /\ series = [s \in SeriesIds |-> NoSeries]
    /\ pub = [p \in Publishers |-> [series_count |-> 0, issue_count |-> 0]]
    /\ stats = [k \in Buckets \X StatNames |-> 0]
    /\ raised = "none"
    /\ nfailed = 0
    /\ ncommits = 0
    /\ batch = NoBatch
    /\ \E data \in [ClassifiedNames -> DataKinds] :
       \E revision \in [ClassifiedNames -> RevisionKinds] :
           /\ \A n \in ClassifiedNames \ {"keywords"} : data[n] # "tags"
           /\ <<data["keywords"], revision["keywords"]>>
                  \in {<<"none", "none">>, <<"tags", "value">>}
           /\ disp = [data |-> data, revision |-> revision]
    /\ edit = <<>>
    /\ pc = "types"
    /\ BrandsAtRest
    /\ LocksAtRest
    /\ NoChangeset

NextClassify == Classify

SpecClassify == InitClassify /\ [][NextClassify]_vars

\* the Issue entity and IssueRevision of the test, over the five names
IssueTypes ==
    [data |-> [number |-> "value", series |-> "value", keywords |-> "tags",
               sort_code |-> "value", reserved |-> "value"],
     revision |-> [number |-> "value", series |-> "value",
                   keywords |-> "value", sort_code |-> "none",
                   reserved |-> "none"]]

\* the regular and irregular fields are disjoint and together are the
\* fields of the display entity that are not excluded
RegularIrregularPartition ==
    /\ edit.regular \cap edit.irregular = {}
    /\ edit.regular \cup edit.irregular = DataFields(disp)
    /\ edit.single_value \cap edit.multi_value = {}

\* C19 as stated: the regular and irregular fields partition the fields
\* that are not excluded, the single-value and multi-value fields are
\* disjoint, and their union is the set of regular fields.
C19_UnionIsRegular ==
    pc = "classified" =>
        /\ RegularIrregularPartition
        /\ edit.single_value \cup edit.multi_value = edit.regular

\* C19, amended: the regular and irregular fields partition the fields that
\* are not excluded, the single-value and multi-value fields are disjoint,
\* and their union is the set of regular fields without keywords, which is
\* regular and neither single-value nor multi-value; for IssueRevision the
\* multi-value set is empty.
C19_UnionIsRegularButKeywords ==
    pc = "classified" =>
        /\ RegularIrregularPartition
        /\ edit.single_value \cup edit.multi_value
               = edit.regular \ {"keywords"}
        /\ disp.data["keywords"] # "none" => "keywords" \in edit.regular
        /\ disp = IssueTypes =>
               /\ edit.regular = {"number", "series", "keywords"}
               /\ edit.irregular = {"sort_code"}
               /\ edit.single_value = {"number", "series"}
               /\ edit.multi_value = {}

\* the classification of Issue and IssueRevision
C19_Witness ==
    /\ pc = "classified"
    /\ disp = IssueTypes
    /\ "keywords" \in edit.regular

\* ------------------------------------- moves that change what is counted
\* what a series adds to the cached counters of its publisher: one series
\* and its issue_count, when it is a comics publication (lines 1147-1150)
SeriesContribution(row) ==
    IF row.is_comics_publication
    THEN [series_count |-> 1, issue_count |-> row.issue_count]
    ELSE [series_count |-> 0, issue_count |-> 0]

\* this step commits an edit that gives series s another publisher
PublisherChanges(s) ==
    /\ series[s].live
    /\ series'[s].publisher # series[s].publisher

\* this step moves issue i into a series of another publisher
MovesToOtherPublisher(i) ==
    /\ issue[i].live
    /\ issue'[i].series # issue[i].series
    /\ series[issue'[i].series].publisher # series[issue[i].series].publisher

\* what an issue adds to the issue_count of the publisher of series s
IssueContribution(i, s) ==
    IF issue[i].variant_of = None /\ series[s].is_comics_publication
    THEN 1 ELSE 0

\* C21 as stated: a commit that moves a series to another publisher takes
\* the series' old contribution from the old publisher's counters and adds
\* its new contribution to the new publisher's, also when the same edit
\* toggles is_comics_publication; a commit that moves an issue into a
\* series of another publisher does the same with the issue.
C21_MoveAndRecount ==
    [][/\ \A s \in SeriesIds :
              PublisherChanges(s) =>
                  LET o == series[s].publisher
                      n == series'[s].publisher
                      was == SeriesContribution(series[s])
                      now == SeriesContribution(series'[s])
                  IN  /\ pub'[o].series_count
                             = pub[o].series_count - was.series_count
                      /\ pub'[o].issue_count
                             = pub[o].issue_count - was.issue_count
                      /\ pub'[n].series_count
                             = pub[n].series_count + now.series_count
                      /\ pub'[n].issue_count
                             = pub[n].issue_count + now.issue_count
       /\ \A i \in IssueIds :
              MovesToOtherPublisher(i) =>
                  LET o == issue[i].series
                      n == issue'[i].series
                  IN  /\ pub'[series[o].publisher].issue_count
                             = pub[series[o].publisher].issue_count
                                   - IssueContribution(i, o)
                      /\ pub'[series[n].publisher].issue_count
                             = pub[series[n].publisher].issue_count
                                   + IssueContribution(i, n)
      ]_vars

ReprintRevs == {k \in LinkRevIds : edit[k].live /\ edit[k].model = "reprint"}

\* the kind of link revision k stands for: out_type if set, else in_type
KindOf(k) ==
    IF edit[k].out_type # "" THEN edit[k].out_type ELSE edit[k].in_type

\* the link row of its kind that revision k names is there
HasLinkRow(k) ==
    /\ KindOf(k) # ""
    /\ \E l \in LinkIds :
           /\ edit[k].fk[KindOf(k)] = l
           /\ disp.links[l].live
           /\ disp.links[l].kind = KindOf(k)

\* C22: reading source of a reprint revision never raises; it is None when
\* the revision has neither in_type nor out_type, when the link row of its
\* kind is gone, and for a deleted revision of an approved changeset, and
\* else the link row of the kind out_type (if set, else in_type) gives.
C22_SourceNeverRaises ==
    \A k \in ReprintRevs :
        LET s == get_source(disp.links, edit[k], edit[k].state)
        IN  /\ s.raised = "none"
            /\ s.row = IF HasLinkRow(k)
                          /\ ~(edit[k].deleted /\ edit[k].state = "APPROVED")
                       THEN edit[k].fk[KindOf(k)]
                       ELSE None

\* a revision was committed with a changed type and had the row of its
\* out_type as its source; then a deleting revision cloned from that row was
\* committed, and neither of the two has a source any more
C22_Witness ==
    \E k \in ReprintRevs :
        /\ edit[k].deleted
        /\ edit[k].state = "APPROVED"
        /\ edit[k].previous_revision \in ReprintRevs
        /\ LET j == edit[k].previous_revision
           IN  /\ edit[j].in_type # ""
               /\ edit[j].out_type # ""
               /\ edit[j].in_type # edit[j].out_type
               /\ ~HasLinkRow(j)
               /\ get_source(disp.links, edit[j], "APPROVED").row = None

\* ---------------------------------- revisions that create dependent objects
\* BrandGroupRevision, BrandRevision, BrandUseRevision and CoverRevision.
\* disp holds the brand groups with their parent publisher, the cached
\* brand_count of the publishers, the gcd_brand_use and gcd_cover rows and
\* the 'covers' statistic; pc holds the call that ran last and the saves it
\* made, in the order it made them.

MaxCovers == 2
CoverIds == 1..MaxCovers
MaxIssueRevisions == 3
\* the issues covers belong to; issue3 is the one an added issue revision
\* of the changeset creates
CoverIssues == {"issue1", "issue2", "issue3"}
ChangeTypes == {"cover", "variant_add", "two_issues"}

NoCover == [live |-> FALSE, deleted |-> FALSE, issue |-> ""]
NoGroup == [live |-> FALSE, parent |-> ""]

\* issue.series.language / country of the fixture issues
bucket_of(i) == IF i = "issue2" THEN "de_de" ELSE "us_en"

FreeCoverIds(covers) == {c \in CoverIds : ~covers[c].live}
NewCoverId(covers) == CHOOSE c \in FreeCoverIds(covers) :
                          \A d \in FreeCoverIds(covers) : c <= d
FreeGroups(groups) == {g \in Groups : ~groups[g].live}
NewGroup(groups) == CHOOSE g \in FreeGroups(groups) : TRUE

\* BrandUseRevision.commit_to_display, add branch: the BrandUse row is saved
\* with the revision's emblem and publisher, then the revision is bound
BrandUseRevision_add(uses, emblem, publisher) ==
    [uses |-> Append(uses, [emblem |-> emblem, publisher |-> publisher]),
     log |-> <<"save BrandUse", "bind BrandUseRevision">>]

\* a brand use that is given the parent the brand revision carries
BrandRevision_add_use_of_parent(d, db, revision_groups, parent) ==
    LET r == BrandRevision_add(db, revision_groups)
        new == NewBrandId(db.brand)
        use == BrandUseRevision_add(d.uses, new, parent)
    IN  IF r.raised # "none"
        THEN [db |-> r, disp |-> d,
              log |-> <<"save Brand", "bind BrandRevision">>]
        ELSE [db |-> r, disp |-> [d EXCEPT !.uses = use.uses],
              log |-> <<"save Brand", "bind BrandRevision",
                        "new BrandUseRevision">> \o use.log]

\* BrandRevision.commit_to_display, add branch, with the BrandUseRevision it
\* builds and commits once the brand is saved and bound: the use links the
\* brand to group.parent of the one group the brand has.  parent is the
\* revision's own parent field, which the use does not take.
BrandRevision_add_with_use(d, db, revision_groups, parent) ==
    LET r == BrandRevision_add(db, revision_groups)
        new == NewBrandId(db.brand)
        group == CHOOSE g \in r.brand[new].group : TRUE
        use == BrandUseRevision_add(d.uses, new, d.groups[group].parent)
    IN  IF r.raised # "none"
        THEN [db |-> r, disp |-> d,
              log |-> <<"save Brand", "bind BrandRevision">>]
        ELSE [db |-> r, disp |-> [d EXCEPT !.uses = use.uses],
              log |-> <<"save Brand", "bind BrandRevision",
                        "new BrandUseRevision">> \o use.log]

\* BrandGroupRevision.commit_to_display, add branch: the publisher's
\* brand_count, the group row, the revision, then a BrandRevision of the new
\* group, which is committed
BrandGroupRevision_add(d, db, parent) ==
    LET new == NewGroup(d.groups)
        d1 == [d EXCEPT !.brand_count[parent] = @ + 1,
                        !.groups[new] = [live |-> TRUE, parent |-> parent]]
        r == BrandRevision_add_with_use(d1, db, {new}, "")
    IN  [db |-> r.db, disp |-> r.disp,
         log |-> <<"save Publisher", "save BrandGroup",
                   "bind BrandGroupRevision", "new BrandRevision">>
                 \o r.log]

\* issue_revisions[0].commit_to_display() of an added issue
added_issue == "issue3"

\* self.changeset.issuerevisions.exclude(issue=old_issue)
other_issue_revisions(irs, old_issue) ==
    {n \in 1..Len(irs) : irs[n] # old_issue}

\* every number of issue revisions is taken for supported
unsupported_never(irs) == FALSE

\* len(issue_revisions) is neither 0 nor 1
unsupported_issue_revisions(irs) == Len(irs) > 1

\* the keys of CTYPES
CTYPES == {"publisher", "series"}

\* [CTYPES['variant_add'], CTYPES['two_issues']]: the lookup of a key that
\* CTYPES does not have raises KeyError
change_type_lookup == IF {"variant_add", "two_issues"} \subseteq CTYPES
                      THEN "none" ELSE "KeyError"

\* CoverRevision.commit_to_display.  r is the revision, cs its changeset:
\* the change_type and the issues of its issue revisions ("" for an added
\* issue that is not committed yet).
CoverRevision_commit(d, r, cs) ==
    LET irs == cs.issuerevisions
        new == NewCoverId(d.covers)
        ok(d1) == [disp |-> d1, raised |-> "none"]
        fails(exc) == [disp |-> d, raised |-> exc]
        count(d1, n, i) ==
            [d1 EXCEPT !.cover_count[bucket_of(i)] = @ + n]
    IN  IF r.cover = None
        THEN IF unsupported_issue_revisions(irs)
             THEN fails("NotImplementedError")
             ELSE LET i == IF Len(irs) = 0 THEN r.issue
                           ELSE IF irs[1] = "" THEN added_issue
                           ELSE irs[1]
                      d1 == IF Len(irs) = 1 /\ irs[1] = ""
                            THEN [d EXCEPT !.issue_commits = @ + 1]
                            ELSE d
                      d2 == [d1 EXCEPT !.covers[new] =
                                [live |-> TRUE, deleted |-> FALSE,
                                 issue |-> i]]
                  IN  ok(count(d2, 1, i))
        ELSE IF r.deleted
        THEN ok(count([d EXCEPT !.covers[r.cover].deleted = TRUE],
                      -1, d.covers[r.cover].issue))
        ELSE IF ~r.is_replacement
        THEN IF change_type_lookup # "none"
             THEN fails(change_type_lookup)
             ELSE IF cs.change_type \in {"variant_add", "two_issues"}
             THEN LET old_issue == d.covers[r.cover].issue
                      S == other_issue_revisions(irs, old_issue)
                      i == irs[CHOOSE n \in S : TRUE]
                      d1 == [d EXCEPT !.covers[r.cover].issue = i]
                  IN  IF get_raises(S) # "none" THEN fails(get_raises(S))
                      ELSE IF bucket_of(i) # bucket_of(old_issue)
                      THEN ok(count(count(d1, -1, old_issue), 1, i))
                      ELSE ok(d1)
             ELSE fails("NotImplementedError")
        ELSE ok(d)

DependentStep(call, d, db, exc, log) ==
    /\ nfailed < MaxFailures
    /\ disp' = d
    /\ brand' = db.brand
    /\ group_count' = db.group_count
    /\ brands_stat' = db.brands_stat
    /\ brand_use' = db.brand_use
    /\ raised' = exc
    /\ nfailed' = IF exc = "none" THEN nfailed ELSE nfailed + 1
    /\ pc' = [call |-> call, log |-> log]
    /\ UNCHANGED <<issueVars, ncommits, batch, lockVars, prereqVars, edit>>

\* an added BrandGroupRevision is committed
CommitBrandGroupAdd ==
    /\ FreeGroups(disp.groups) # {}
    /\ FreeBrandIds(brand) # {}
    /\ \E parent \in Publishers :
           LET r == BrandGroupRevision_add(disp, BrandDB, parent)
           IN  DependentStep([op |-> "group_add", parent |-> parent],
                             r.disp, r.db, r.db.raised, r.log)

\* an added BrandRevision is committed, with any set of existing groups
CommitBrandAddWithUse ==
    /\ FreeBrandIds(brand) # {}
    /\ \E revision_groups \in SUBSET {g \in Groups : disp.groups[g].live} :
       \E parent \in Publishers :
           LET r == BrandRevision_add_with_use(disp, BrandDB,
                                               revision_groups, parent)
           IN  DependentStep([op |-> "brand_add", group |-> revision_groups,
                              parent |-> parent],
                             r.disp, r.db, r.db.raised, r.log)

LiveCovers == {c \in CoverIds : disp.covers[c].live /\ ~disp.covers[c].deleted}

\* the issues of the issue revisions a changeset can hold next to a cover
\* revision; "" stands for an added issue that is not committed yet
IssueRevisionLists(issues, longest) ==
    UNION {[1..n -> issues] : n \in 0..longest}

CoverRevisionOf(cover, deleted, is_replacement, i) ==
    [cover |-> cover, deleted |-> deleted,
     is_replacement |-> is_replacement, issue |-> i]

CoverStep(r, change_type, irs) ==
    LET cs == [change_type |-> change_type, issuerevisions |-> irs]
        res == CoverRevision_commit(disp, r, cs)
    IN  DependentStep([op |-> "cover", r |-> r, cs |-> cs],
                      res.disp, BrandDB, res.raised, <<>>)

\* an added CoverRevision is committed
CommitCoverAdd ==
    /\ FreeCoverIds(disp.covers) # {}
    /\ \E i \in {"issue1", "issue2"} : \E change_type \in ChangeTypes :
       \E irs \in IssueRevisionLists({"", "issue1", "issue2"}, 2) :
           CoverStep(CoverRevisionOf(None, FALSE, FALSE, i), change_type, irs)

\* the CoverRevision that deletes or replaces a cover is committed
CommitCoverDeleteOrReplace ==
    \E c \in LiveCovers : \E deleted \in BOOLEAN :
        CoverStep(CoverRevisionOf(c, deleted, ~deleted, disp.covers[c].issue),
                  "cover", <<>>)

\* the CoverRevision that moves a cover to another issue is committed; the
\* issue revisions of its changeset are committed before it
CommitCoverMove ==
    \E c \in LiveCovers : \E change_type \in ChangeTypes :
    \E irs \in IssueRevisionLists({"issue1", "issue2"}, MaxIssueRevisions) :
        CoverStep(CoverRevisionOf(c, FALSE, FALSE, disp.covers[c].issue),
                  change_type, irs)

InitDependents ==
    /\ brand = [b \in BrandIds |-> NoBrand]
    /\ group_count = [g \in Groups |-> 0]
    /\ brands_stat = 0
    /\ brand_use = {}
    /\ disp = [groups |-> [g \in Groups |->
                              IF g = "g1"
                              THEN [live |-> TRUE, parent |-> "p1"]
                              ELSE NoGroup],
               brand_count |-> [p \in Publishers |->
                                   IF p = "p1" THEN 1 ELSE 0],
               uses |-> <<>>,
               covers |-> [c \in CoverIds |-> NoCover],
               cover_count |-> [b \in Buckets |-> 0],
               issue_commits |-> 0]
    /\ edit = <<>>
    /\ pc = [call |-> [op |-> "none"], log |-> <<>>]
    /\ issue = [i \in IssueIds |-> NoIssue]
    /\ series = [s \in SeriesIds |-> NoSeries]
    /\ pub = [p \in Publishers |-> [series_count |-> 0, issue_count |-> 0]]
    /\ stats = [k \in Buckets \X StatNames |-> 0]
    /\ raised = "none"
    /\ nfailed = 0
    /\ ncommits = 0
    /\ batch = NoBatch
    /\ LocksAtRest
    /\ NoChangeset

NextDependents ==
    \/ CommitBrandGroupAdd
    \/ CommitBrandAddWithUse
    \/ CommitCoverAdd
    \/ CommitCoverDeleteOrReplace
    \/ CommitCoverMove

SpecDependents == InitDependents /\ [][NextDependents]_vars

\* ------------------------------------- properties of the dependent objects
\* the step commits an added cover revision in a changeset with more than
\* one issue revision
AddedCoverOfMany(call) ==
    /\ call.op = "cover"
    /\ call.r.cover = None
    /\ Len(call.cs.issuerevisions) > 1

\* the step commits a cover move in a changeset that is neither a variant
\* add nor a two-issue changeset
OtherCoverMove(call) ==
    /\ call.op = "cover"
    /\ call.r.cover # None
    /\ ~call.r.deleted
    /\ ~call.r.is_replacement
    /\ call.cs.change_type \notin {"variant_add", "two_issues"}

\* the step commits an added brand revision without a group or with
\* several
BrandOfNotOneGroup(call) ==
    /\ call.op = "brand_add"
    /\ Cardinality(call.group) # 1

\* C23: the commit of an added brand revision whose groups are not exactly
\* one, of an added cover revision next to more than one issue revision,
\* and of a cover move in a changeset of another type each end in an
\* exception that leaves the handler, NotImplementedError in the first two
\* cases; the handler has run once (one failure counted, the brand counted
\* once, no cover row touched) and has created no brand use.
C23_UnsupportedCasesAreFatal ==
    [][/\ BrandOfNotOneGroup(pc'.call)
              => /\ raised' = "NotImplementedError"
                 /\ nfailed' = nfailed + 1
                 /\ brands_stat' = brands_stat + 1
                 /\ disp' = disp
       /\ AddedCoverOfMany(pc'.call)
              => /\ raised' = "NotImplementedError"
                 /\ nfailed' = nfailed + 1
                 /\ disp' = disp
                 /\ brand' = brand
       /\ OtherCoverMove(pc'.call)
              => /\ raised' # "none"
                 /\ nfailed' = nfailed + 1
                 /\ disp' = disp
                 /\ brand' = brand
      ]_vars

\* the commit of a cover revision added next to two issue revisions has
\* failed, in a run that had added a brand and a cover before
C23_Witness ==
    /\ AddedCoverOfMany(pc.call)
    /\ raised = "NotImplementedError"
    /\ nfailed = 1
    /\ LiveCovers # {}
    /\ disp.uses # <<>>

\* where the call made this save
PositionOf(log, e) == CHOOSE n \in 1..Len(log) : log[n] = e

\* the saves were made, and in this order
InOrder(log, events) ==
    /\ \A n \in 1..Len(events) : \E m \in 1..Len(log) : log[m] = events[n]
    /\ \A n \in 1..(Len(events) - 1) :
           PositionOf(log, events[n]) < PositionOf(log, events[n + 1])

NewBrands == {b \in BrandIds : ~brand[b].live /\ brand'[b].live}
NewGroups == {g \in Groups : ~disp.groups[g].live /\ disp'.groups[g].live}

\* C29: the commit of an added brand group revision creates one group and
\* one brand that belongs to it; the commit of an added brand revision with
\* one group creates one brand use, of the new brand and of the parent
\* publisher of that group.  The group is saved and its revision bound
\* before the brand revision is made, the brand saved and its revision
\* bound before the brand use revision is made.
C29_DependentsCreatedOnce ==
    [][/\ pc'.call.op = "group_add"
              => /\ raised' = "none"
                 /\ Cardinality(NewGroups) = 1
                 /\ Cardinality(NewBrands) = 1
                 /\ \A g \in NewGroups : \A b \in NewBrands :
                        /\ disp'.groups[g].parent = pc'.call.parent
                        /\ brand'[b].group = {g}
                        /\ disp'.uses =
                               Append(disp.uses,
                                      [emblem |-> b,
                                       publisher |-> pc'.call.parent])
                 /\ InOrder(pc'.log,
                            <<"save BrandGroup", "bind BrandGroupRevision",
                              "new BrandRevision", "save Brand",
                              "bind BrandRevision", "new BrandUseRevision",
                              "save BrandUse">>)
       /\ (pc'.call.op = "brand_add" /\ Cardinality(pc'.call.group) = 1)
              => /\ raised' = "none"
                 /\ NewGroups = {}
                 /\ Cardinality(NewBrands) = 1
                 /\ \A g \in pc'.call.group : \A b \in NewBrands :
                        /\ brand'[b].group = {g}
                        /\ disp'.uses =
                               Append(disp.uses,
                                      [emblem |-> b,
                                       publisher |-> disp.groups[g].parent])
                 /\ InOrder(pc'.log,
                            <<"save Brand", "bind BrandRevision",
                              "new BrandUseRevision", "save BrandUse">>)
      ]_vars

\* a brand group of publisher p2 has been added, and with it a brand and a
\* brand use of p2, after a brand of the group of p1
C29_Witness ==
    /\ pc.call.op = "group_add"
    /\ pc.call.parent = "p2"
    /\ raised = "none"
    /\ Len(disp.uses) = 2
    /\ disp.uses[1].publisher = "p1"
    /\ disp.uses[2] = [emblem |-> 2, publisher |-> "p2"]
    /\ brand[2].group = {"g2"}
    /\ disp.groups["g2"] = [live |-> TRUE, parent |-> "p2"]

\* ------------------------------------------------- making space, save by save
\* The saves of the loop over later_issues, in the order they are made:
\* the row saved and the table as the save leaves it.  A save the unique
\* constraint rejects ends the loop.
RECURSIVE ShiftSaves(_, _, _)
ShiftSaves(iss, order, space_count) ==
    IF order = <<>> THEN <<>>
    ELSE LET i == Head(order)
             code == iss[i].sort_code + space_count
             saved == [iss EXCEPT ![i].sort_code = code]
         IN IF SortCodeTaken(iss, i, iss[i].series, code)
            THEN <<[saved |-> i, rejected |-> TRUE, issue |-> iss]>>
            ELSE <<[saved |-> i, rejected |-> FALSE, issue |-> saved]>>
                 \o ShiftSaves(saved, Tail(order), space_count)

\* the saves "Make space for the issue(s) being added" makes
MakeSpaceSaves(iss, s, after_code, space_count) ==
    IF space_count > 0
    THEN ShiftSaves(iss, OrderDesc(iss, later_issues(iss, s, after_code)),
                    space_count)
    ELSE <<>>

\* no two rows of series s hold one sort_code
UniqueCodes(iss, s) ==
    \A i, j \in IssueIds :
        (i # j /\ iss[i].live /\ iss[j].live
             /\ iss[i].series = s /\ iss[j].series = s)
            => iss[i].sort_code # iss[j].sort_code

\* C24: whatever issue of a series an insertion goes behind and however
\* many issues it inserts, the saves that make room go from the issue with
\* the highest sort_code down to the one with the lowest, none is rejected,
\* and after each of them no two issues of the series hold one sort_code;
\* the table after the last save is the one the commit goes on with.
C24_ShiftHighestFirst ==
    \A s \in ActiveSeries : \A after \in {None} \cup active_issues(issue, s) :
    \A n \in 1..MaxBulk :
        LET after_code == after_code_of(issue, after)
            saves == MakeSpaceSaves(issue, s, after_code, n)
        IN  /\ \A k \in 1..Len(saves) :
                   /\ ~saves[k].rejected
                   /\ UniqueCodes(saves[k].issue, s)
            /\ \A k \in 1..(Len(saves) - 1) :
                   issue[saves[k].saved].sort_code
                       > issue[saves[k + 1].saved].sort_code
            /\ saves # <<>> =>
                   saves[Len(saves)].issue
                       = MakeSpace(issue, s, after_code, n).issue

\* an insertion at the beginning of a series has moved two issues with
\* adjacent sort codes out of the way, and another one would move three
C24_Witness ==
    \E s \in ActiveSeries :
        /\ raised = "none"
        /\ IssuesOf(s) = {1, 2, 3}
        /\ issue[3].sort_code = 0
        /\ issue[1].sort_code = 1
        /\ issue[2].sort_code = 2
        /\ Len(MakeSpaceSaves(issue, s, -1, 1)) = 3

\* the space_count this step's commit of an added issue is called with:
\* the number of issues for the first revision of a bulk add, 0 for its
\* siblings, the default of 1 otherwise
SpaceCountOfStep ==
    IF batch.state = "running"
    THEN IF batch.done = 0 THEN batch.n ELSE 0
    ELSE 1

\* the issues this step creates
CreatedIssues == {i \in IssueIds : ~issue[i].live /\ issue'[i].live}

\* C25: the commit of an added issue behind an issue X (at the beginning
\* without X) raises the sort_code of every issue of the series behind X by
\* the number of issues being inserted and saves each of them once, and
\* leaves X, every issue before it and the issues of other series as they
\* were; without an issue behind X nothing is saved.
C25_RoomForInsertion ==
    [][\A i \in CreatedIssues :
           raised' = "none" =>
               LET s == issue'[i].series
                   after_code == issue'[i].sort_code - 1
                   n == SpaceCountOfStep
                   behind == {j \in IssueIds :
                                 /\ issue[j].live
                                 /\ issue[j].series = s
                                 /\ issue[j].sort_code > after_code}
                   saves == MakeSpaceSaves(issue, s, after_code, n)
               IN  /\ \A j \in IssueIds \ {i} :
                          issue'[j] =
                              IF j \in behind
                              THEN [issue[j] EXCEPT !.sort_code = @ + n]
                              ELSE issue[j]
                   /\ n > 0 =>
                          /\ {saves[k].saved : k \in 1..Len(saves)} = behind
                          /\ Len(saves) = Cardinality(behind)
                   /\ behind = {} => saves = <<>>
      ]_vars

\* an issue has been inserted between two others: the one behind it has
\* moved up by one, the one before it is where it was
C25_Witness ==
    \E s \in ActiveSeries :
        /\ raised = "none"
        /\ batch.state = "idle"
        /\ IssuesOf(s) = {1, 2, 3}
        /\ issue[1].sort_code = 0
        /\ issue[3].sort_code = 1
        /\ issue[2].sort_code = 2

\* the issues the bulk add has created so far; ids are handed out in
\* rising order, so that a revision committed later has the higher id
BatchCreated == {i \in IssueIds : ~batch.base[i].live /\ issue[i].live}

\* C26: while the revisions of a bulk add are committed in the order of
\* their revision_sort_code, the issues created so far sit in that order on
\* the sort codes right behind the insertion point, one code apart.
C26_AddsKeepRevisionOrder ==
    batch.state \in {"running", "done"} =>
        /\ Cardinality(BatchCreated) = batch.done
        /\ \A i \in BatchCreated :
               /\ issue[i].series = batch.series
               /\ issue[i].sort_code =
                      BatchAfterCode
                          + Cardinality({j \in BatchCreated : j <= i})

\* two issues have been added behind an issue of the series
C26_Witness ==
    /\ batch.state = "done"
    /\ batch.n = 2
    /\ batch.after # None
    /\ raised = "none"
    /\ Cardinality(BatchCreated) = 2
    /\ \E i \in BatchCreated :
           issue[i].sort_code = issue[batch.after].sort_code + 2

\* ---------------------------------------------------------------------
\* Link rows of reprint revisions
\* ---------------------------------------------------------------------

\* the kinds of link row reprint revision k holds a key of
ReferencedTypes(k) == {t \in ReprintTypes : edit[k].fk[t] # None}

\* the last call committed a reprint revision that is not a delete
CommittedReprint ==
    /\ pc.op = "commit"
    /\ edit[pc.id].model = "reprint"
    /\ ~edit[pc.id].deleted

\* C27: after any sequence of clones and commits a reprint revision holds
\* the key of at most one of the four link rows, and after a commit that is
\* not a delete the row it references is of the kind recorded in out_type.
C27_OneLinkRowOfOutType ==
    /\ \A k \in ReprintRevs : Cardinality(ReferencedTypes(k)) <= 1
    /\ CommittedReprint =>
           LET r == edit[pc.id]
           IN  /\ r.out_type \in ReprintTypes
               /\ ReferencedTypes(pc.id) = {r.out_type}
               /\ disp.links[r.fk[r.out_type]].live
               /\ disp.links[r.fk[r.out_type]].kind = r.out_type

\* a commit has changed the type of a link, and the approved revision the
\* old row was created by has lost its key
C27_Witness ==
    /\ CommittedReprint
    /\ edit[pc.id].in_type # edit[pc.id].out_type
    /\ \E j \in ReprintRevs \ {pc.id} :
           /\ edit[j].state = "APPROVED"
           /\ edit[j].out_type = edit[pc.id].in_type
           /\ ReferencedTypes(j) = {}

\* C28: on commit a reprint revision picks its kind from the fields that are
\* set: the origin is a story when origin_story or origin_revision is set and
\* an issue otherwise, the target is a story when target_story or
\* target_revision is set and an issue otherwise; the row of that one kind
\* is written, and an origin_revision or target_revision is replaced by the
\* story of that story revision and cleared.
C28_KindFromFieldsSet ==
    [][\A k \in LinkRevIds :
           (/\ pc' = [op |-> "commit", id |-> k]
            /\ edit[k].model = "reprint"
            /\ ~edit[k].deleted)
               => LET r == edit[k]
                      story_origin == r.origin_story # ""
                                          \/ r.origin_revision # ""
                      story_target == r.target_story # ""
                                          \/ r.target_revision # ""
                      kind == IF story_origin /\ story_target
                              THEN "story_to_story"
                              ELSE IF story_origin THEN "story_to_issue"
                              ELSE IF story_target THEN "issue_to_story"
                              ELSE "issue_to_issue"
                      origin == IF r.origin_revision # ""
                                THEN story_of(r.origin_revision)
                                ELSE IF story_origin THEN r.origin_story
                                ELSE r.origin_issue
                      target == IF r.target_revision # ""
                                THEN story_of(r.target_revision)
                                ELSE IF story_target THEN r.target_story
                                ELSE r.target_issue
                      l == edit'[k].fk[kind]
                  IN  /\ edit'[k].out_type = kind
                      /\ edit'[k].origin_revision = ""
                      /\ edit'[k].target_revision = ""
                      /\ story_origin => edit'[k].origin_story = origin
                      /\ story_target => edit'[k].target_story = target
                      /\ l # None
                      /\ disp'.links[l] = LinkRow(kind, origin, target,
                                                  r.notes)
                      /\ \A t \in ReprintTypes \ {kind} :
                             edit'[k].fk[t] = None]_vars

\* a story-to-story link was committed as an issue-to-story link whose
\* target came from a story revision
C28_Witness ==
    /\ CommittedReprint
    /\ edit[pc.id].in_type = "story_to_story"
    /\ edit[pc.id].out_type = "issue_to_story"
    /\ edit[pc.id].target_story = "story3"
    /\ edit[pc.id].target_revision = ""
    /\ disp.links[edit[pc.id].fk["issue_to_story"]] =
           LinkRow("issue_to_story", "issue1", "story3", edit[pc.id].notes)

\* the link row revision k of rv holds the key of
row_of(rv, k) ==
    IF rv[k].model = "bond" THEN rv[k].series_bond
    ELSE IF rv[k].model = "use" THEN rv[k].brand_use
    ELSE rv[k].fk[rv[k].in_type]

\* revision k of rv holds a key of link row l
references(rv, k, l) ==
    /\ rv[k].live
    /\ IF rv[k].model = "bond" THEN rv[k].series_bond = l
       ELSE IF rv[k].model = "use" THEN rv[k].brand_use = l
       ELSE \E t \in ReprintTypes : rv[k].fk[t] = l

\* C30: after the commit of a deleting revision of a link row (brand use,
\* series bond or reprint of any kind) the row is gone and no revision of any
\* changeset, the predecessors of the deleting revision included, holds its
\* key.
C30_DeletedRowUnreferenced ==
    [][\A k \in LinkRevIds :
           (/\ pc' = [op |-> "commit", id |-> k]
            /\ edit[k].deleted
            /\ row_of(edit, k) # None)
               => LET l == row_of(edit, k)
                  IN  /\ disp.links[l].live
                      /\ ~disp'.links[l].live
                      /\ \A j \in LinkRevIds : ~references(edit', j, l)]_vars

\* the delete of a brand use was committed, and the approved revision the
\* row was created by no longer names it
C30_Witness ==
    /\ pc.op = "commit"
    /\ edit[pc.id].model = "use"
    /\ edit[pc.id].deleted
    /\ edit[pc.id].state = "APPROVED"
    /\ edit[pc.id].brand_use = None
    /\ \E j \in LinkRevIds \ {pc.id} :
           /\ edit[j].live
           /\ edit[j].model = "use"
           /\ edit[j].state = "APPROVED"
           /\ edit[j].brand_use = None
    /\ \A l \in LinkIds : disp.links[l].live => disp.links[l].kind # "brand_use"

\* C31: the commit of a deleting reprint revision deletes the link row it
\* was cloned from and raises nothing, whatever the state of its changeset
\* when commit_to_display runs, APPROVED included.
C31_DeleteInAnyChangesetState ==
    [][\A k \in LinkRevIds :
           (/\ pc'.op \in {"commit", "commit_approved"}
            /\ pc'.id = k
            /\ edit[k].model = "reprint"
            /\ edit[k].deleted
            /\ row_of(edit, k) # None)
               => /\ raised' = "none"
                  /\ ~disp'.links[row_of(edit, k)].live]_vars

\* ---------------------------------------------------------------------
\* Covers, galleries and the issues they belong to
\* ---------------------------------------------------------------------
\* disp holds the gcd_cover rows, has_gallery of every series and the
\* 'covers' statistic; edit is the changeset of an added issue with an
\* added cover while it is approved; pc is the call that ran last.

\* commits of one run of the cover workflow
MaxCoverCommits == 6

NoCoverRow == [live |-> FALSE, deleted |-> FALSE, issue |-> None]
CoverRow(i) == [live |-> TRUE, deleted |-> FALSE, issue |-> i]

\* issue.active_covers(): the covers of the issue that are not deleted
active_covers(covers, i) ==
    {c \in CoverIds : covers[c].live /\ ~covers[c].deleted
                      /\ covers[c].issue = i}

\* series.scan_count(): the number of covers of the issues of the series
\* that are not deleted
scan_count(covers, iss, s) ==
    Cardinality({c \in CoverIds : /\ covers[c].live
                                  /\ ~covers[c].deleted
                                  /\ iss[covers[c].issue].series = s})

\* a gallery that is never taken back
gallery_kept(hg, covers, iss, s) == hg

\* if series.scan_count() == 0: series.has_gallery = False; series.save()
gallery_after_loss(hg, covers, iss, s) ==
    IF scan_count(covers, iss, s) = 0 THEN [hg EXCEPT ![s] = FALSE] ELSE hg

\* update_count('covers', -1, old language and country);
\* update_count('covers', 1, new language and country)
move_cover_count(cc, old_bucket, new_bucket) ==
    [[cc EXCEPT ![old_bucket] = @ - 1] EXCEPT ![new_bucket] = @ + 1]

\* if not issue_revisions[0].issue: issue_revisions[0].commit_to_display()
commits_issue_revision(ir_issue) == ir_issue = None

CoverResult(db, d, exc) == [db |-> db, disp |-> d, raised |-> exc]

\* CoverRevision.commit_to_display of an added cover, once its issue is
\* known: the row, the 'covers' count of the issue's bucket, has_gallery
Cover_add(db, d, i) ==
    LET new == NewCoverId(d.covers)
        s == db.issue[i].series
    IN  CoverResult(db,
            [d EXCEPT !.covers[new] = CoverRow(i),
                      !.cover_count[db.series[s].bucket] = @ + 1,
                      !.has_gallery[s] = TRUE],
            "none")

\* series.has_gallery = True; series.save() on the series object of the
\* issue revision that was just committed: for a base issue its issue_count
\* is still F('issue_count') + 1, and the save adds one once more
series_saved_again(db, d, s, variant_of) ==
    IF variant_of = None /\ ~d.has_gallery[s]
    THEN [db EXCEPT !.series[s].issue_count = @ + 1]
    ELSE db

\* CoverRevision.commit_to_display of an added cover in a changeset with
\* one issue revision ir, which is committed first when it has no issue
CoverRevision_add_with_issue(db, d, ir) ==
    IF commits_issue_revision(ir.issue)
    THEN LET r == IssueRevision_add(db, ir.series, ir.after, ir.variant_of,
                                    1, 0)
         IN  IF r.raised # "none" THEN CoverResult(r, d, r.raised)
             ELSE Cover_add(series_saved_again(r, d, ir.series,
                                               ir.variant_of),
                            d, NewIssueId(db.issue))
    ELSE Cover_add(db, d, ir.issue)

\* CoverRevision.commit_to_display of a deleting revision
CoverRevision_delete(db, d, c) ==
    LET i == d.covers[c].issue
        s == db.issue[i].series
        covers1 == [d.covers EXCEPT ![c].deleted = TRUE]
    IN  CoverResult(db,
            [d EXCEPT !.covers = covers1,
                      !.cover_count[db.series[s].bucket] = @ - 1,
                      !.has_gallery = gallery_after_loss(
                                          d.has_gallery, covers1,
                                          db.issue, s)],
            "none")

\* CoverRevision.commit_to_display of a cover that is moved: j is the issue
\* of the one issue revision of the changeset that is not of the old issue.
\* The change types are looked up in CTYPES before anything is written.
CoverRevision_move(db, d, c, j) ==
    LET old_issue == d.covers[c].issue
        o == db.issue[old_issue].series
        n == db.issue[j].series
        covers1 == [d.covers EXCEPT ![c].issue = j]
        cc == IF n # o /\ db.series[n].bucket # db.series[o].bucket
              THEN move_cover_count(d.cover_count, db.series[o].bucket,
                                    db.series[n].bucket)
              ELSE d.cover_count
        hg == IF n # o
              THEN gallery_after_loss([d.has_gallery EXCEPT ![n] = TRUE],
                                      covers1, db.issue, o)
              ELSE d.has_gallery
    IN  IF change_type_lookup # "none"
        THEN CoverResult([db EXCEPT !.raised = change_type_lookup], d,
                         change_type_lookup)
        ELSE CoverResult(db,
                 [d EXCEPT !.covers = covers1, !.cover_count = cc,
                           !.has_gallery = hg],
                 "none")

\* IssueRevision.commit_to_display of an issue that moves to series t, with
\* the covers it takes along: the 'covers' counts move with a base issue
\* whose bucket changes; has_gallery of both series is set on the objects
\* that set_series_first_last and _check_first_last save
IssueRevision_move_covers(db, d, i, t) ==
    LET r == IssueRevision_move(db, i, t)
        o == db.issue[i].series
        n == Cardinality(active_covers(d.covers, i))
        cc == IF db.issue[i].variant_of = None
                 /\ db.series[t].bucket # db.series[o].bucket
              THEN [[d.cover_count EXCEPT ![db.series[t].bucket] = @ + n]
                       EXCEPT ![db.series[o].bucket] = @ - n]
              ELSE d.cover_count
        hg1 == IF ~d.has_gallery[t] /\ n > 0
               THEN [d.has_gallery EXCEPT ![t] = TRUE]
               ELSE d.has_gallery
        hg2 == IF scan_count(d.covers, db.issue, o) = n
               THEN [hg1 EXCEPT ![o] = FALSE]
               ELSE hg1
    IN  IF r.raised = "DoesNotExist" THEN CoverResult(r, d, r.raised)
        ELSE IF r.raised # "none"
        THEN CoverResult(r, [d EXCEPT !.cover_count = cc], r.raised)
        ELSE CoverResult(r, [d EXCEPT !.cover_count = cc,
                                      !.has_gallery = hg2],
                         "none")

\* no changeset of an added issue with an added cover is being approved
NoAddChangeset == [kind |-> "none"]

\* the changeset is not there or both of its revisions are committed
ChangesetAtRest ==
    IF edit.kind = "none" THEN TRUE
    ELSE edit.issue_done /\ edit.cover_done

CoverCommit(call, res, changeset) ==
    /\ ncommits < MaxCoverCommits
    /\ Apply(res.db)
    /\ disp' = res.disp
    /\ edit' = changeset
    /\ pc' = call
    /\ ncommits' = ncommits + 1
    /\ UNCHANGED <<batch, brandVars, lockVars, prereqVars>>

\* a changeset with one added issue revision and one added cover revision
\* comes up for approval
ApproveIssueWithCover ==
    /\ ChangesetAtRest
    /\ FreeIssueIds(issue) # {}
    /\ FreeCoverIds(disp.covers) # {}
    /\ \E s \in ActiveSeries :
       \E after \in {None} \cup active_issues(issue, s) :
       \E variant_of \in {None} \cup BaseIssues(s) :
           CoverCommit([op |-> "approve"], CoverResult(DB, disp, raised),
               [kind |-> "issue_and_cover", series |-> s, after |-> after,
                variant_of |-> variant_of, issue |-> None, cover |-> None,
                issue_done |-> FALSE, cover_done |-> FALSE,
                before |-> [issues |-> ActiveIssues,
                            issue_count |-> series[s].issue_count,
                            publisher |-> pub[series[s].publisher]
                                              .issue_count]])

\* commit_to_display of the issue revision of that changeset: an add when
\* the revision has no issue yet, an edit that changes nothing when the
\* cover revision has committed it already
CommitIssueOfChangeset ==
    /\ edit.kind = "issue_and_cover"
    /\ ~edit.issue_done
    /\ LET r == IF edit.issue = None
                THEN IssueRevision_add(DB, edit.series, edit.after,
                                       edit.variant_of, 1, 0)
                ELSE IssueRevision_edit(DB, edit.issue, edit.series)
       IN  CoverCommit([op |-> "issue"], CoverResult(r, disp, r.raised),
               IF r.raised # "none" THEN NoAddChangeset
               ELSE [edit EXCEPT !.issue = IF edit.issue = None
                                           THEN NewIssueId(issue) ELSE @,
                                 !.issue_done = TRUE])

\* commit_to_display of the cover revision of that changeset
CommitCoverOfChangeset ==
    /\ edit.kind = "issue_and_cover"
    /\ ~edit.cover_done
    /\ commits_issue_revision(edit.issue) => FreeIssueIds(issue) # {}
    /\ LET res == CoverRevision_add_with_issue(DB, disp, edit)
       IN  CoverCommit([op |-> "cover_of_changeset"], res,
               IF res.raised # "none" THEN NoAddChangeset
               ELSE [edit EXCEPT !.issue = IF edit.issue = None
                                           THEN NewIssueId(issue) ELSE @,
                                 !.cover = NewCoverId(disp.covers),
                                 !.cover_done = TRUE])

ScanCovers == {c \in CoverIds : disp.covers[c].live /\ ~disp.covers[c].deleted}

\* an added cover revision of an existing issue is committed; its changeset
\* has no issue revision
CommitCoverOfIssue ==
    /\ ChangesetAtRest
    /\ FreeCoverIds(disp.covers) # {}
    /\ \E i \in ActiveIssues :
           CoverCommit([op |-> "cover_add", issue |-> i],
                       Cover_add(DB, disp, i), NoAddChangeset)

\* a deleting cover revision is committed
CommitCoverDelete ==
    /\ ChangesetAtRest
    /\ \E c \in ScanCovers :
           CoverCommit([op |-> "cover_delete", cover |-> c],
                       CoverRevision_delete(DB, disp, c), NoAddChangeset)

\* the cover revision of a variant-add or two-issue changeset is committed
\* for a cover that is to go to issue j, the issue of the other issue
\* revision, which is committed
CommitCoverToOtherIssue ==
    /\ ChangesetAtRest
    /\ \E c \in ScanCovers : \E j \in ActiveIssues \ {disp.covers[c].issue} :
       \E change_type \in {"variant_add", "two_issues"} :
           CoverCommit([op |-> "cover_move", cover |-> c, issue |-> j],
                       CoverRevision_move(DB, disp, c, j), NoAddChangeset)

\* an issue revision that moves its issue to another series is committed
CommitIssueMoveWithCovers ==
    /\ ChangesetAtRest
    /\ \E i \in ActiveIssues : \E t \in ActiveSeries \ {issue[i].series} :
           CoverCommit([op |-> "issue_move", issue |-> i, series |-> t],
                       IssueRevision_move_covers(DB, disp, i, t),
                       NoAddChangeset)

\* Two series and no cover; the first series has one issue, the second has
\* one or none; the second series has any publisher, country and language,
\* and is a comics publication or not.
SeriesWithIssue(icp, n) == [SeriesFixture("p1", "us_en", icp)
                                EXCEPT !.issue_count = n]

InitCovers ==
    /\ \E with_issue \in {S \in SUBSET SeriesIds : 1 \in S} :
           /\ series \in [SeriesIds ->
                  {[SeriesFixture(p, b, icp) EXCEPT !.issue_count = n] :
                       p \in Publishers, b \in Buckets, icp \in BOOLEAN,
                       n \in 0..1}]
           /\ series[1] = SeriesWithIssue(TRUE, 1)
           /\ \A s \in SeriesIds :
                  series[s].issue_count = IF s \in with_issue THEN 1 ELSE 0
           /\ issue = [i \in IssueIds |->
                          IF i \in with_issue THEN IssueRow(i, 0, None)
                          ELSE NoIssue]
    /\ pub = [p \in Publishers |->
                [series_count |->
                     CountOf({s \in SeriesIds :
                                 /\ series[s].publisher = p
                                 /\ series[s].is_comics_publication}),
                 issue_count |->
                     CountOf({s \in SeriesIds :
                                 /\ series[s].publisher = p
                                 /\ series[s].is_comics_publication
                                 /\ series[s].issue_count = 1})]]
    /\ stats = [k \in Buckets \X StatNames |->
                   IF k[2] = "series"
                   THEN CountOf({s \in SeriesIds :
                                    /\ series[s].bucket = k[1]
                                    /\ series[s].is_comics_publication})
                   ELSE IF k[2] = "issues"
                   THEN CountOf({s \in SeriesIds :
                                    /\ series[s].bucket = k[1]
                                    /\ series[s].is_comics_publication
                                    /\ series[s].issue_count = 1})
                   ELSE 0]
    /\ disp = [covers |-> [c \in CoverIds |-> NoCoverRow],
               has_gallery |-> [s \in SeriesIds |-> FALSE],
               cover_count |-> [b \in Buckets |-> 0]]
    /\ edit = NoAddChangeset
    /\ pc = [op |-> "none"]
    /\ raised = "none"
    /\ nfailed = 0
    /\ ncommits = 0
    /\ batch = NoBatch
    /\ BrandsAtRest
    /\ LocksAtRest
    /\ NoChangeset

NextCovers ==
    \/ ApproveIssueWithCover
    \/ CommitIssueOfChangeset
    \/ CommitCoverOfChangeset
    \/ CommitCoverOfIssue
    \/ CommitCoverDelete
    \/ CommitCoverToOtherIssue
    \/ CommitIssueMoveWithCovers

SpecCovers == InitCovers /\ [][NextCovers]_vars

\* ----------------------------------------------- properties of the covers
\* C32: once commit_to_display has run on the added issue revision and the
\* added cover revision of one changeset, in either order, one Issue row
\* has been created, the new cover is a cover of that issue, and the issue
\* is counted once in the issue_count of its series and of the publisher.
C32_OneIssueForIssueAndCover ==
    (edit.kind = "issue_and_cover" /\ edit.issue_done /\ edit.cover_done)
        => LET s == edit.series
               counted == IF edit.variant_of = None THEN 1 ELSE 0
           IN  /\ ActiveIssues \ edit.before.issues = {edit.issue}
               /\ issue[edit.issue].series = s
               /\ disp.covers[edit.cover] = CoverRow(edit.issue)
               /\ series[s].issue_count = edit.before.issue_count + counted
               /\ pub[series[s].publisher].issue_count =
                      edit.before.publisher
                          + IF series[s].is_comics_publication
                            THEN counted ELSE 0

\* C33: the commit of a cover revision of an existing cover that is no
\* replacement, in a variant-add or two-issue changeset, makes the cover a
\* cover of the issue of the other issue revision; when the series of that
\* issue differs in country or language from the series of the old issue,
\* one 'covers' count goes from the old bucket to the new bucket, and else
\* no count changes.
C33_CoverMoveRecounts ==
    [][pc'.op = "cover_move"
          => LET c == pc'.cover
                 j == pc'.issue
                 ob == series[issue[disp.covers[c].issue].series].bucket
                 nb == series[issue[j].series].bucket
             IN  /\ raised' = "none"
                 /\ disp'.covers =
                        [disp.covers EXCEPT ![c].issue = j]
                 /\ disp'.cover_count =
                        [b \in Buckets |->
                            IF ob = nb THEN disp.cover_count[b]
                            ELSE IF b = ob THEN disp.cover_count[b] - 1
                            ELSE IF b = nb THEN disp.cover_count[b] + 1
                            ELSE disp.cover_count[b]]]_vars

\* C34: after any sequence of cover commits (add, delete, move) and of
\* issue commits that move an issue to another series, has_gallery of every
\* series that is a comics publication is true exactly when the series has
\* a cover that is not deleted.
C34_GalleryIffScans ==
    \A s \in ActiveSeries :
        series[s].is_comics_publication
            => (disp.has_gallery[s] <=> scan_count(disp.covers, issue, s) > 0)

\* the last cover of a comics publication was deleted, and its gallery is
\* closed, while another series has one
C34_Witness ==
    /\ pc.op = "cover_delete"
    /\ ~disp.has_gallery[1]
    /\ scan_count(disp.covers, issue, 1) = 0
    /\ \E s \in ActiveSeries \ {1} :
           /\ series[s].is_comics_publication
           /\ disp.has_gallery[s]

\* ---------------------------------------------------------------------
\* Stories and the indexed status of their issues
\* ---------------------------------------------------------------------
\* disp holds the gcd_story rows, is_indexed of the issues and the
\* 'stories' and 'issue indexes' statistics; pc is the call that ran last.
\* The issues and their series are fixed: issue 1 and issue 2 belong to
\* comics publications of different countries, issue 3 to a series of the
\* first country that is not a comics publication.

MaxStories == 3
StoryIds == 1..MaxStories
StoryIssues == {1, 2, 3}
story_issue_bucket(i) == IF i = 2 THEN "de_de" ELSE "us_en"
story_issue_is_comics(i) == i # 3

NoStory == [live |-> FALSE, deleted |-> FALSE, issue |-> None]

\* issue.active_stories()
active_stories(stories, i) ==
    {s \in StoryIds : stories[s].live /\ ~stories[s].deleted
                      /\ stories[s].issue = i}

\* issue.set_indexed_status(): the status is worked out from the stories
\* the issue has in the table at the time of the call, stored if it has
\* changed, and returned
set_indexed_status(d, i) ==
    LET status == IF active_stories(d.stories, i) = {} THEN "skeleton"
                  ELSE "full"
    IN  [disp |-> [d EXCEPT !.is_indexed[i] = status], status |-> status]

\* `status is False`: the status is an entry of INDEXED, never the object
\* False
is_False(status) == status = "False"

count_stories(d, i, n) ==
    [d EXCEPT !.story_count[story_issue_bucket(i)] = @ + n]
count_indexes(d, i, n) ==
    [d EXCEPT !.index_count[story_issue_bucket(i)] = @ + n]

\* the end of StoryRevision.commit_to_display: the indexed status of
\* self.issue after the story is saved
StoryRevision_issue_status(d, i) ==
    LET r == set_indexed_status(d, i)
    IN  IF d.is_indexed[i] = "skeleton"
        THEN IF r.status # "skeleton" /\ story_issue_is_comics(i)
             THEN count_indexes(r.disp, i, 1)
             ELSE r.disp
        ELSE IF r.status = "skeleton" /\ story_issue_is_comics(i)
             THEN count_indexes(r.disp, i, -1)
             ELSE r.disp

\* StoryRevision.commit_to_display, story is None
StoryRevision_add(d, i) ==
    LET new == CHOOSE s \in StoryIds : ~d.stories[s].live
        d1 == count_stories(d, i, 1)
        d2 == [d1 EXCEPT !.stories[new] =
                  [live |-> TRUE, deleted |-> FALSE, issue |-> i]]
    IN  StoryRevision_issue_status(d2, i)

\* StoryRevision.commit_to_display, self.deleted: the status of the issue
\* is asked for before story.delete()
StoryRevision_delete(d, s) ==
    LET i == d.stories[s].issue
        r == set_indexed_status(d, i)
        d1 == IF d.is_indexed[i] # "skeleton"
              THEN IF r.status = "skeleton" /\ story_issue_is_comics(i)
                   THEN count_indexes(r.disp, i, -1)
                   ELSE r.disp
              ELSE d
        d2 == count_stories(d1, i, -1)
    IN  [d2 EXCEPT !.stories[s].deleted = TRUE]

\* StoryRevision.commit_to_display of a story whose revision names another
\* issue: the status of the old issue is asked for before story.save()
StoryRevision_move(d, s, i) ==
    LET old_issue == d.stories[s].issue
        d1 == IF story_issue_bucket(old_issue) # story_issue_bucket(i)
              THEN count_stories(count_stories(d, i, 1), old_issue, -1)
              ELSE d
        r == set_indexed_status(d1, old_issue)
        d2 == IF is_False(r.status)
              THEN count_indexes(r.disp, old_issue, -1)
              ELSE r.disp
        d3 == [d2 EXCEPT !.stories[s].issue = i]
    IN  StoryRevision_issue_status(d3, i)

StoryStep(call, d) ==
    /\ disp' = d
    /\ pc' = call
    /\ UNCHANGED <<issueVars, raised, nfailed, ncommits, batch, brandVars,
                   lockVars, prereqVars, edit>>

ActiveStories == {s \in StoryIds : disp.stories[s].live
                                   /\ ~disp.stories[s].deleted}

\* an added story revision is committed
CommitStoryAdd ==
    /\ \E s \in StoryIds : ~disp.stories[s].live
    /\ \E i \in StoryIssues :
           StoryStep([op |-> "story_add", issue |-> i],
                     StoryRevision_add(disp, i))

\* a deleting story revision is committed
CommitStoryDelete ==
    \E s \in ActiveStories :
        StoryStep([op |-> "story_delete", story |-> s],
                  StoryRevision_delete(disp, s))

\* a story revision that names another issue is committed
CommitStoryMove ==
    \E s \in ActiveStories : \E i \in StoryIssues \ {disp.stories[s].issue} :
        StoryStep([op |-> "story_move", story |-> s, issue |-> i],
                  StoryRevision_move(disp, s, i))

InitStories ==
    /\ disp = [stories |-> [s \in StoryIds |-> NoStory],
               is_indexed |-> [i \in StoryIssues |-> "skeleton"],
               story_count |-> [b \in Buckets |-> 0],
               index_count |-> [b \in Buckets |-> 0]]
    /\ edit = <<>>
    /\ pc = [op |-> "none"]
    /\ issue = [i \in IssueIds |-> NoIssue]
    /\ series = [s \in SeriesIds |-> NoSeries]
    /\ pub = [p \in Publishers |-> [series_count |-> 0, issue_count |-> 0]]
    /\ stats = [k \in Buckets \X StatNames |-> 0]
    /\ raised = "none"
    /\ nfailed = 0
    /\ ncommits = 0
    /\ batch = NoBatch
    /\ BrandsAtRest
    /\ LocksAtRest
    /\ NoChangeset

NextStories ==
    \/ CommitStoryAdd
    \/ CommitStoryDelete
    \/ CommitStoryMove

SpecStories == InitStories /\ [][NextStories]_vars

\* the commit takes story s, the last story of its issue, away from an
\* indexed issue of a comics publication
TakesLastStory(call) ==
    /\ call.op \in {"story_delete", "story_move"}
    /\ LET i == disp.stories[call.story].issue
       IN  /\ active_stories(disp.stories, i) = {call.story}
           /\ disp.is_indexed[i] # "skeleton"
           /\ story_issue_is_comics(i)

\* C35: the commit of a story revision that takes the last story away from
\* an indexed issue of a comics publication, by a delete or by a move to
\* another issue, lowers 'issue indexes' of the bucket of that issue by 1;
\* a delete lowers 'stories' of that bucket by 1 as well.
C35_LastStoryLowersIndexes ==
    [][TakesLastStory(pc')
          => LET b == story_issue_bucket(disp.stories[pc'.story].issue)
                 gained == IF /\ pc'.op = "story_move"
                              /\ b = story_issue_bucket(pc'.issue)
                              /\ story_issue_is_comics(pc'.issue)
                              /\ disp.is_indexed[pc'.issue] = "skeleton"
                           THEN 1 ELSE 0
             IN  /\ disp'.index_count[b] = disp.index_count[b] - 1 + gained
                 /\ pc'.op = "story_delete"
                        => disp'.story_count[b] = disp.story_count[b] - 1
      ]_vars

\* ---------------------------------------------------------------------
\* Ongoing reservations of series
\* ---------------------------------------------------------------------
\* disp holds is_current of the series rows, is_current of the approved
\* revision each series was last written by, and the series that have an
\* oi_ongoing_reservation row; pc is the call that ran last.

\* the reservation goes whenever the revision is not current
ongoing_unless_current(reservations, s, is_current, previous) ==
    IF ~is_current THEN reservations \ {s} ELSE reservations

\* if (not self.is_current and reservation and self.previous()
\*         and self.previous().is_current): reservation.delete()
\* previous is "none" when the revision has no approved predecessor
ongoing_after_edit(reservations, s, is_current, previous) ==
    IF ~is_current /\ s \in reservations /\ previous = "current"
    THEN reservations \ {s}
    ELSE reservations

\* reservation = self.source.get_ongoing_reservation();
\* if reservation: reservation.delete()
ongoing_after_delete(reservations, s) == reservations \ {s}

as_previous(is_current) == IF is_current THEN "current" ELSE "not_current"

OngoingStep(call, r, d) ==
    /\ ncommits < MaxCommits
    /\ Apply(r)
    /\ ncommits' = ncommits + 1
    /\ disp' = d
    /\ pc' = call
    /\ UNCHANGED <<batch, brandVars, lockVars, prereqVars, edit>>

\* an added SeriesRevision is committed
CommitCurrentSeriesAdd ==
    /\ FreeSeriesIds(series) # {}
    /\ \E p \in Publishers : \E b \in Buckets : \E icp \in BOOLEAN :
       \E is_current \in BOOLEAN :
           LET new == NewSeriesId(series)
           IN  OngoingStep([op |-> "add", id |-> new],
                   SeriesRevision_add(DB, p, b, icp, FALSE),
                   [disp EXCEPT !.is_current[new] = is_current,
                                !.previous[new] = as_previous(is_current)])

\* an indexer takes the ongoing reservation of a series that has none
ReserveOngoing ==
    \E s \in ActiveSeries \ disp.reservations :
        OngoingStep([op |-> "reserve", id |-> s], DB,
                    [disp EXCEPT !.reservations = @ \cup {s}])

\* an edited SeriesRevision is committed
CommitCurrentSeriesEdit ==
    \E s \in ActiveSeries : \E p \in Publishers : \E icp \in BOOLEAN :
    \E is_current \in BOOLEAN :
        /\ <<p, icp, is_current>>
               # <<series[s].publisher, series[s].is_comics_publication,
                   disp.is_current[s]>>
        /\ OngoingStep([op |-> "edit", id |-> s],
               SeriesRevision_edit(DB, s, p, series[s].bucket, icp,
                                   series[s].is_singleton),
               [disp EXCEPT
                   !.is_current[s] = is_current,
                   !.previous[s] = as_previous(is_current),
                   !.reservations = ongoing_after_edit(
                                        @, s, is_current, disp.previous[s])])

\* a deleting SeriesRevision is committed
CommitCurrentSeriesDelete ==
    \E s \in ActiveSeries :
        OngoingStep([op |-> "delete", id |-> s],
            SeriesRevision_delete(DB, s),
            [disp EXCEPT !.reservations = ongoing_after_delete(@, s)])

InitOngoing ==
    /\ issue = [i \in IssueIds |-> NoIssue]
    /\ series = [s \in SeriesIds |-> NoSeries]
    /\ pub = [p \in Publishers |-> [series_count |-> 0, issue_count |-> 0]]
    /\ stats = [k \in Buckets \X StatNames |-> 0]
    /\ raised = "none"
    /\ nfailed = 0
    /\ ncommits = 0
    /\ batch = NoBatch
    /\ disp = [is_current |-> [s \in SeriesIds |-> FALSE],
               previous |-> [s \in SeriesIds |-> "none"],
               reservations |-> {}]
    /\ edit = <<>>
    /\ pc = [op |-> "none", id |-> None]
    /\ BrandsAtRest
    /\ LocksAtRest
    /\ NoChangeset

NextOngoing ==
    \/ CommitCurrentSeriesAdd
    \/ ReserveOngoing
    \/ CommitCurrentSeriesEdit
    \/ CommitCurrentSeriesDelete

SpecOngoing == InitOngoing /\ [][NextOngoing]_vars

\* C36: after the commit of a series revision that deletes the series, or
\* of one that changes is_current from true to false, the series has no
\* ongoing reservation; the commit of any other series edit leaves the
\* reservations as they are.
C36_OngoingReservationDropped ==
    [][/\ pc'.op = "delete" => disp'.reservations
                                   = disp.reservations \ {pc'.id}
       /\ pc'.op = "edit"
              => IF disp.is_current[pc'.id] /\ ~disp'.is_current[pc'.id]
                 THEN disp'.reservations = disp.reservations \ {pc'.id}
                 ELSE disp'.reservations = disp.reservations
      ]_vars

\* an edit has made a series not current and its reservation is gone, while
\* the reservation of a series that was not current before is still there
C36_Witness ==
    /\ pc.op = "edit"
    /\ ~disp.is_current[pc.id]
    /\ pc.id \notin disp.reservations
    /\ \E s \in ActiveSeries \ {pc.id} :
           /\ ~disp.is_current[s]
           /\ s \in disp.reservations

\* ---------------------------------------------------------------------
\* Images of unique types
\* ---------------------------------------------------------------------
\* disp.images is the gcd_image table; pc is the ImageRevision commit that
\* ran last.

\* rows of the image table the model explores
MaxImages == 3
ImageIds == 1..MaxImages
\* the objects images are attached to
ImageObjects == {"issue1", "brand1"}
ImageTypes == {"IndiciaScan", "BrandScan"}
\* ImageType.unique
type_unique(t) == t = "IndiciaScan"
ImageFiles == {"upload1", "upload2"}

NoImage == [live |-> FALSE, deleted |-> FALSE, object |-> "", type |-> "",
            image_file |-> ""]

\* the filter looks at the deleted rows
images_deleted_of(images, o, t) ==
    {i \in ImageIds : /\ images[i].live
                      /\ images[i].object = o
                      /\ images[i].type = t
                      /\ images[i].deleted}

\* Image.objects.filter(content_type=..., object_id=self.object.id,
\*                      type=self.type, deleted=False)
images_of(images, o, t) ==
    {i \in ImageIds : /\ images[i].live
                      /\ images[i].object = o
                      /\ images[i].type = t
                      /\ ~images[i].deleted}

ImageResult(images, exc) == [images |-> images, raised |-> exc]

\* commit_to_display with image None
ImageRevision_add(images, o, t, f) ==
    IF type_unique(t) /\ Cardinality(images_of(images, o, t)) # 0
    THEN ImageResult(images, "ValueError")
    ELSE LET new == CHOOSE i \in ImageIds :
                        /\ ~images[i].live
                        /\ \A j \in ImageIds : ~images[j].live => i <= j
         IN  ImageResult([images EXCEPT ![new] =
                             [live |-> TRUE, deleted |-> FALSE, object |-> o,
                              type |-> t, image_file |-> f]],
                         "none")

\* commit_to_display of a revision of an image, replacement or not: the
\* uploaded file becomes the file of the image
ImageRevision_replace(images, i, f) ==
    ImageResult([images EXCEPT ![i].image_file = f], "none")

\* commit_to_display with self.deleted: image.delete()
ImageRevision_delete(images, i) ==
    ImageResult([images EXCEPT ![i].deleted = TRUE], "none")

ImageStep(call, r) ==
    /\ disp' = [images |-> r.images]
    /\ raised' = r.raised
    /\ pc' = call
    /\ UNCHANGED <<issueVars, nfailed, ncommits, batch, brandVars,
                   lockVars, prereqVars, edit>>

ActiveImages == {i \in ImageIds : disp.images[i].live
                                  /\ ~disp.images[i].deleted}

\* an added ImageRevision is committed
CommitImageAdd ==
    /\ \E i \in ImageIds : ~disp.images[i].live
    /\ \E o \in ImageObjects : \E t \in ImageTypes : \E f \in ImageFiles :
           ImageStep([op |-> "add", id |-> None, object |-> o, type |-> t],
                     ImageRevision_add(disp.images, o, t, f))

\* an ImageRevision that replaces the file of an image is committed
CommitImageReplacement ==
    \E i \in ActiveImages : \E f \in ImageFiles :
        /\ f # disp.images[i].image_file
        /\ ImageStep([op |-> "replace", id |-> i,
                      object |-> disp.images[i].object,
                      type |-> disp.images[i].type],
                     ImageRevision_replace(disp.images, i, f))

\* a deleting ImageRevision is committed
CommitImageDelete ==
    \E i \in ActiveImages :
        ImageStep([op |-> "delete", id |-> i,
                   object |-> disp.images[i].object,
                   type |-> disp.images[i].type],
                  ImageRevision_delete(disp.images, i))

InitImages ==
    /\ disp = [images |-> [i \in ImageIds |-> NoImage]]
    /\ edit = <<>>
    /\ pc = [op |-> "none", id |-> None, object |-> "", type |-> ""]
    /\ issue = [i \in IssueIds |-> NoIssue]
    /\ series = [s \in SeriesIds |-> NoSeries]
    /\ pub = [p \in Publishers |-> [series_count |-> 0, issue_count |-> 0]]
    /\ stats = [k \in Buckets \X StatNames |-> 0]
    /\ raised = "none"
    /\ nfailed = 0
    /\ ncommits = 0
    /\ batch = NoBatch
    /\ BrandsAtRest
    /\ LocksAtRest
    /\ NoChangeset

NextImages ==
    \/ CommitImageAdd
    \/ CommitImageReplacement
    \/ CommitImageDelete

SpecImages == InitImages /\ [][NextImages]_vars

\* the images of type t that object o has and that are not deleted
ActiveImagesOf(o, t) ==
    {i \in ActiveImages : disp.images[i].object = o /\ disp.images[i].type = t}

UniqueImageAtMostOnce ==
    \A o \in ImageObjects : \A t \in ImageTypes :
        type_unique(t) => Cardinality(ActiveImagesOf(o, t)) <= 1

\* C37: after any sequence of ImageRevision commits an object has at most
\* one image of a unique type that is not deleted, and the commit of an
\* added image of a unique type while the object has one raises ValueError
\* and leaves the image table as it was.
C37_UniqueImageOnce ==
    [][/\ UniqueImageAtMostOnce'
       /\ (/\ pc'.op = "add"
           /\ type_unique(pc'.type)
           /\ ActiveImagesOf(pc'.object, pc'.type) # {})
              => /\ raised' = "ValueError"
                 /\ disp'.images = disp.images
      ]_vars

\* a second image of a unique type was refused for an object whose image
\* of that type had been replaced, after an earlier one had been deleted
C37_Witness ==
    /\ pc.op = "add"
    /\ raised = "ValueError"
    /\ \E i, j \in ImageIds :
           /\ disp.images[i].live /\ disp.images[i].deleted
           /\ disp.images[j].live /\ ~disp.images[j].deleted
           /\ disp.images[i].object = pc.object
           /\ disp.images[j].object = pc.object
           /\ disp.images[i].type = pc.type
           /\ disp.images[j].type = pc.type
           /\ type_unique(pc.type)
           /\ disp.images[j].image_file # disp.images[i].image_file

\* ---------------------------------------------------------------------
\* Recently indexed issues
\* ---------------------------------------------------------------------
\* disp.is_indexed is Issue.is_indexed of each issue; disp.recents counts
\* the calls of RecentIndexedIssue.objects.update_recents for each issue;
\* pc is the changeset action and the issue of the hook that ran last.

\* calls of update_recents per issue the model explores
MaxRecents == 2
RecentIssues == {1, 2}
ChangesetActions == {"ACTION_ADD", "ACTION_MODIFY", "ACTION_DELETE"}
\* the keys of INDEXED
IndexedStatus == {"skeleton", "full", "partial"}

\* every commit of an indexed issue is recorded
records_indexed(action, is_indexed) == is_indexed # "skeleton"

\* self.changeset.changeset_action() == ACTION_MODIFY and
\*     self.issue.is_indexed != INDEXED['skeleton']
records_recent(action, is_indexed) ==
    action = "ACTION_MODIFY" /\ is_indexed # "skeleton"

\* IssueRevision._post_commit_to_display
IssueRevision_post_commit_to_display(d, action, i) ==
    IF records_recent(action, d.is_indexed[i])
    THEN [d EXCEPT !.recents[i] = @ + 1]
    ELSE d

RecentStep(call, d) ==
    /\ \A i \in RecentIssues : d.recents[i] <= MaxRecents
    /\ disp' = d
    /\ pc' = call
    /\ UNCHANGED <<issueVars, raised, nfailed, ncommits, batch, brandVars,
                   lockVars, prereqVars, edit>>

\* the post-commit hook of an issue revision runs
PostCommitToDisplay ==
    \E i \in RecentIssues : \E action \in ChangesetActions :
        /\ pc' = [op |-> action, id |-> i]
        /\ RecentStep([op |-> action, id |-> i],
                      IssueRevision_post_commit_to_display(disp, action, i))

\* story commits give an issue another indexed status
SetIndexedStatus ==
    \E i \in RecentIssues : \E status \in IndexedStatus :
        /\ status # disp.is_indexed[i]
        /\ RecentStep([op |-> "set_indexed_status", id |-> i],
                      [disp EXCEPT !.is_indexed[i] = status])

InitRecents ==
    /\ disp = [is_indexed |-> [i \in RecentIssues |-> "skeleton"],
               recents |-> [i \in RecentIssues |-> 0]]
    /\ edit = <<>>
    /\ pc = [op |-> "none", id |-> None]
    /\ issue = [i \in IssueIds |-> NoIssue]
    /\ series = [s \in SeriesIds |-> NoSeries]
    /\ pub = [p \in Publishers |-> [series_count |-> 0, issue_count |-> 0]]
    /\ stats = [k \in Buckets \X StatNames |-> 0]
    /\ raised = "none"
    /\ nfailed = 0
    /\ ncommits = 0
    /\ batch = NoBatch
    /\ BrandsAtRest
    /\ LocksAtRest
    /\ NoChangeset

NextRecents ==
    \/ PostCommitToDisplay
    \/ SetIndexedStatus

SpecRecents == InitRecents /\ [][NextRecents]_vars

\* C38: the post-commit hook of an issue revision records the issue as
\* recently indexed exactly when the action of the changeset is MODIFY and
\* the indexed status of the issue is not skeleton; for an ADD or a DELETE,
\* or for a skeleton issue, nothing is recorded.
C38_RecentOnlyForModifyOfIndexed ==
    [][pc'.op \in ChangesetActions
          => IF pc'.op = "ACTION_MODIFY"
                /\ disp.is_indexed[pc'.id] # "skeleton"
             THEN disp'.recents
                      = [disp.recents EXCEPT ![pc'.id] = @ + 1]
             ELSE disp'.recents = disp.recents
      ]_vars

\* a MODIFY of an indexed issue was recorded, after hooks for that issue
\* and for another indexed issue had run without recording anything
C38_Witness ==
    /\ pc.op = "ACTION_MODIFY"
    /\ disp.recents[pc.id] = 1
    /\ disp.is_indexed[pc.id] = "partial"
    /\ \E j \in RecentIssues :
           /\ j # pc.id
           /\ disp.is_indexed[j] = "full"
           /\ disp.recents[j] = 0

====
